---- MODULE Spec2Model ----
(***************************************************************************)
(* Model of the stacklet MCP server:                                       *)
(*   - the AssetDB query execution (submit, job poll with exponential      *)
(*     backoff, result fetch, saved-query lookup) and the tool result of   *)
(*     assetdb/redash.py and assetdb/tools.py;                             *)
(*   - the Platform dataset export (start, status poll, download), the     *)
(*     GraphQL query, the schema cache and get_types of                    *)
(*     platform/graphql.py and platform/tools.py;                          *)
(*   - the server-global cache of lifespan.py;                             *)
(*   - json_guard of utils/json.py and the validation of tool arguments;   *)
(*   - the files persisted by the tools (settings.py, platform/graphql.py);*)
(*   - the documentation tools of docs/client.py and docs/tools.py;        *)
(*   - the tool lists of the tools() functions and make_server.            *)
(* Each component has its own variables and its own specification over the *)
(* common initial state.                                                   *)
(* Time is counted in whole seconds.  A Python Optional value is modelled  *)
(* as a set with at most one element: None is {} and a value x is {x}.     *)
(* A Python string built by formatting is modelled as the sequence of its  *)
(* fragments.                                                              *)
(***************************************************************************)
EXTENDS Integers, Sequences, FiniteSets, TLC

VARIABLES
    \* ---- one query execution (assetdb) ----
    entry,        \* "none" | "tool" | "client": how the execution was entered
    query_id,     \* Optional saved-query id ({} for an ad-hoc query)
    timeout,      \* the timeout argument, seconds
    pc,           \* position of the invocation
    response,     \* _execute_results: key of the POST answer, "query_result" | "job"
    now,          \* time.monotonic(), seconds
    cutoff,       \* _poll_job: cutoff
    interval_s,   \* _poll_job: interval_s
    job,          \* _poll_job: the last Job built from a broker answer
    sleepFor,     \* argument of the pending asyncio.sleep
    sleeps,       \* durations of the asyncio.sleep calls made, in order
    requests,     \* HTTP requests sent, in order
    result_id,    \* Optional: value returned by _poll_job
    query_result, \* Optional: the QueryResult held by the invocation
    tool_result,  \* Optional: the ToolQueryResult returned
    error,        \* Optional: [kind, message] of the exception raised
    files,        \* the result files written to the download directory, in order
    \* ---- one dataset export (platform) ----
    epc,          \* position of export_dataset
    etimeout,     \* export_input.timeout
    enow,         \* time.time(), seconds
    end_time,     \* _poll_export_completion: end_time
    efetches,     \* number of status queries sent
    esleeps,      \* durations of the asyncio.sleep calls made, in order
    export_data,  \* Optional: the last fetched status node
    export_result,\* Optional: the ExportResult returned
    eerror,       \* Optional: message of the exception raised
    \* ---- one platform_graphql_query call (platform) ----
    gpc,          \* position of the call
    gquery,       \* the query argument: the operation types of the document
    gvariables,   \* the variables argument (Optional)
    grequests,    \* request_data of the POSTs sent, in order
    gresponse,    \* Optional: the response received
    gresult,      \* Optional: the GraphQLQueryResult returned
    gerror,       \* Optional: [kind, message] of the exception raised
    \* ---- one PlatformClient and the calls that use its schema ----
    schema_cache, \* PlatformClient._schema_cache (Optional)
    stask,        \* per task: position, operation, schema obtained, error
    srequests,    \* the tasks that sent an introspection POST, in order
    sbuilt,       \* number of build_client_schema calls made
    \* ---- one PlatformClient.get_types call, the schema in hand ----
    tpc,          \* position of the call
    type_names,   \* the type_names argument
    type_map,     \* schema.type_map: the names of the schema's types
    types_result, \* Optional: the GetTypesResult returned
    \* ---- the server-global cache (lifespan.py) ----
    server_state, \* ServerState: key -> Optional cached object
    ctask,        \* per task: position, key asked for, object obtained
    constructed,  \* key -> number of objects constructed for it
    load_failures,\* number of load_stacklet_auth calls that raised
    \* ---- one call of a json_guard-wrapped tool, one argument ----
    apc,          \* position of the call
    aparam,       \* the parameter the argument is for
    avalue,       \* the value the caller means
    amangle,      \* "identity" | "json.dumps": how the caller delivers it
    aarg,         \* the argument as delivered
    avalidated,   \* Optional: the value handed to the implementation
    arequests,    \* requests sent by the implementation, in order
    aerror,       \* Optional: kind of the error raised
    \* ---- the download directory and the files persisted into it ----
    disk,         \* path -> content of the files on disk (a set of [path, content])
    dclock,       \* time.time(), whole seconds
    persisted,    \* the persists made, in order: [by, path, content]
    \* ---- one DocsClient and the docs_list / docs_read calls that use it ----
    docs_index,   \* DocsClient._index: the paths of the cached listing
    dtask,        \* per task: position, tool, file_path, index fetched, requests sent, result, error
    drequests,    \* the GET requests sent, in order: [by, url]
    dcalls,       \* the calls that ended, in order
    \* ---- the settings and the tool lists computed from them ----
    settings,     \* SETTINGS: the three feature flags
    listed,       \* the assetdb tools() calls made, in order: [settings, tools]
    exposed       \* Optional: the tools of the server make_server built, [settings, tools]

qvars == <<entry, query_id, timeout, pc, response, now, cutoff, interval_s, job, sleepFor,
           sleeps, requests, result_id, query_result, tool_result, error, files>>
evars == <<epc, etimeout, enow, end_time, efetches, esleeps, export_data,
           export_result, eerror>>
gvars == <<gpc, gquery, gvariables, grequests, gresponse, gresult, gerror>>
svars == <<schema_cache, stask, srequests, sbuilt>>
tvars == <<tpc, type_names, type_map, types_result>>
cvars == <<server_state, ctask, constructed, load_failures>>
avars == <<apc, aparam, avalue, amangle, aarg, avalidated, arequests, aerror>>
dvars == <<disk, dclock, persisted>>
ovars == <<docs_index, dtask, drequests, dcalls>>
lvars == <<settings, listed, exposed>>
vars == <<qvars, evars, gvars, svars, tvars, cvars, avars, dvars, ovars, lvars>>

\* What an action of one component leaves alone: the other components.
nonquery == <<evars, gvars, svars, tvars, cvars, avars, dvars, ovars, lvars>>
nonexport == <<qvars, gvars, svars, tvars, cvars, avars, dvars, ovars, lvars>>
nongraphql == <<qvars, evars, svars, tvars, cvars, avars, dvars, ovars, lvars>>
nonschema == <<qvars, evars, gvars, tvars, cvars, avars, dvars, ovars, lvars>>
nontypes == <<qvars, evars, gvars, svars, cvars, avars, dvars, ovars, lvars>>
noncache == <<qvars, evars, gvars, svars, tvars, avars, dvars, ovars, lvars>>
nonguard == <<qvars, evars, gvars, svars, tvars, cvars, dvars, ovars, lvars>>
nonfiles == <<qvars, evars, gvars, svars, tvars, cvars, avars, ovars, lvars>>
nondocs == <<qvars, evars, gvars, svars, tvars, cvars, avars, dvars, lvars>>
nontools == <<qvars, evars, gvars, svars, tvars, cvars, avars, dvars, ovars>>

----------------------------------------------------------------------------
\* Bounds of the model.

\* Timeouts run from -MaxNegTimeout to MaxSmallTimeout, plus the default.
MaxNegTimeout == 1
MaxSmallTimeout == 7
\* A job-status fetch takes 0..MaxFetchTime seconds.
MaxFetchTime == 1

----------------------------------------------------------------------------
\* Optional values and Python truthiness.

None == {}
Some(x) == {x}
TheValue(o) == CHOOSE x \in o : TRUE

\* bool(x) of an Optional[int]: None and 0 are false.
TruthyIntNotNone(o) == o # None
TruthyInt(o) == \E x \in o : x # 0
\* bool(x) of an Optional[str]: None and "" are false.
TruthyStr(o) == \E x \in o : x # ""

Min(a, b) == IF a <= b THEN a ELSE b

RECURSIVE SumSeq(_)
SumSeq(s) == IF s = <<>> THEN 0 ELSE s[1] + SumSeq(Tail(s))

----------------------------------------------------------------------------
\* JobStatus (assetdb/models.py).

QUEUED == 1
STARTED == 2
FINISHED == 3
FAILED == 4
CANCELED == 5
DEFERRED == 6
SCHEDULED == 7

JobStatus == {QUEUED, STARTED, FINISHED, FAILED, CANCELED, DEFERRED, SCHEDULED}

IsTerminalNoCanceled(status) == status \in {FINISHED, FAILED}
is_terminal(status) == status \in {FINISHED, FAILED, CANCELED}

----------------------------------------------------------------------------
\* Values the broker and the caller can supply.

QUERY_ID == 123
RESULT_ID == 789
JOB_ID == "job-456"
ERROR_TEXT == "Oh no borken"

DefaultTimeout == 60
ToolMinTimeout == 5
ToolMaxTimeout == 300

Timeouts == ((0 - MaxNegTimeout) .. MaxSmallTimeout) \cup {DefaultTimeout}

\* A Job as the broker may serialise it: the Job model puts no constraint
\* between status, error and query_result_id.
Jobs ==
    [id : {JOB_ID},
     status : JobStatus,
     error : {None, Some(""), Some(ERROR_TEXT)},
     query_result_id : {None, Some(0), Some(RESULT_ID)}]

NoJob == [id |-> "", status |-> QUEUED, error |-> None, query_result_id |-> None]

\* A request is its method and the path segments of its endpoint; an id
\* interpolated by an f-string appears in its decimal form.
Request(method, path) == [method |-> method, path |-> path]

\* execute_saved_query / execute_adhoc_query: the endpoint of the submit POST.
SubmitEndpoint(q) ==
    IF q # None
    THEN <<"api", "queries", ToString(TheValue(q)), "results">>
    ELSE <<"api", "query_results">>

JobEndpoint(j) == <<"api", "jobs", j.id>>
ResultEndpointOther(rid) == <<"api", "query_results", ToString(rid + 1)>>
ResultEndpoint(rid) == <<"api", "query_results", ToString(rid)>>
QueryEndpoint(qid) == <<"api", "queries", ToString(qid)>>

----------------------------------------------------------------------------
\* Errors (utils/error.py, assetdb/redash.py).

\* annotated_error without original_error.
annotated_error(problem, likely_cause, next_steps) ==
    problem \o <<". This likely means ", likely_cause, ". Next steps: ", next_steps>>

\* job.error or '(unknown)'
ErrorOrUnknown(j) == IF TruthyStr(j.error) THEN TheValue(j.error) ELSE "(unknown)"

FailureMessage(j) ==
    annotated_error(<<"Query execution error: ", ErrorOrUnknown(j)>>,
                    "the query SQL or parameters were invalid",
                    "investigate the errors, or try a simpler query and build up")

TimeoutMessageNoSeconds(t) ==
    annotated_error(<<"Timed out">>,
                    "the query is still executing",
                    "request cached results (with max_age=-1), or try a simpler query")
TimeoutMessage(t) ==
    annotated_error(<<"Timed out after ", ToString(t), " seconds">>,
                    "the query is still executing",
                    "request cached results (with max_age=-1), or try a simpler query")

Raise(kind, message) == Some([kind |-> kind, message |-> message])

HttpError == Raise("http", <<"HTTPStatusError">>)

----------------------------------------------------------------------------
\* _poll_job (assetdb/redash.py), one loop iteration after the fetch.

\* cutoff = time.monotonic() + timeout
Cutoff(t0, t) == t0 + t

InitialInterval == 2

\* interval_s *= 2
NextIntervalLinear(i) == i + 2
NextInterval(i) == i * 2

\* if remaining_s <= 0
DeadlinePassedStrict(remaining_s) == remaining_s < 0
DeadlinePassed(remaining_s) == remaining_s <= 0

\* asyncio.sleep(min(interval_s, remaining_s))
SleepDuration(i, remaining_s) == Min(i, remaining_s)

\* What the loop body does with the Job just fetched, `remaining_s` being
\* cutoff - time.monotonic() after the fetch.
PollDecisionNoDeadline(j, remaining_s) ==
    IF TruthyInt(j.query_result_id) THEN "return"
    ELSE IF is_terminal(j.status) THEN "fail"
    ELSE "sleep"
PollDecision(j, remaining_s) ==
    IF TruthyInt(j.query_result_id) THEN "return"
    ELSE IF is_terminal(j.status) THEN "fail"
    ELSE IF DeadlinePassed(remaining_s) THEN "timeout"
    ELSE "sleep"

----------------------------------------------------------------------------
\* _tool_query_result (assetdb/tools.py) and get_query_result_urls
\* (assetdb/redash.py).

\* some_rows=query_result.data.rows[:20]
PreviewRows == 20

\* The result sets the broker may answer have 0, 1 or PreviewRows - 1 ..
\* PreviewRows + MaxExtraRows rows; row i of a result set is the number i.
MaxExtraRows == 1
RowCounts == {0, 1} \cup ((PreviewRows - 1) .. (PreviewRows + MaxExtraRows))
RowSeqs == {[i \in 1 .. n |-> i] : n \in RowCounts}

\* class ExportFormat(StrEnum), in declaration order.
ExportFormat == <<"csv", "json", "tsv", "xlsx">>

REDASH_URL == "https://redash.example.com/"
API_KEY == "test-api-key"

\* The broker's answer to GET api/query_results/{id} and GET api/queries/{id}
\* is the object with the id asked for.
QueryResultOf(rid, rows) == [id |-> rid, rows |-> rows]
QueryOf(qid) == [id |-> qid, api_key |-> API_KEY]

\* rows[:20]
SomeRowsAll(rows) == rows
SomeRows(rows) == SubSeq(rows, 1, Min(PreviewRows, Len(rows)))

\* urljoin(redash_url,
\*     f"api/queries/{query.id}/results/{query_result.id}.{fmt}?api_key={query.api_key}")
ResultUrlOfResult(q, qr, fmt) ==
    <<REDASH_URL, "api/queries/", ToString(qr.id), "/results/", ToString(qr.id),
      ".", fmt, "?api_key=", q.api_key>>
ResultUrl(q, qr, fmt) ==
    <<REDASH_URL, "api/queries/", ToString(q.id), "/results/", ToString(qr.id),
      ".", fmt, "?api_key=", q.api_key>>

\* {fmt: url for fmt in ExportFormat}, then the list built from its items.
get_query_result_urls(q, qr) ==
    [i \in DOMAIN ExportFormat |->
        [format |-> ExportFormat[i], download_from |-> ResultUrl(q, qr, ExportFormat[i])]]

\* identity = f"{query.id}_{query_result.id}" if query else f"{query_result.id}"
Identity(qr, q) ==
    IF q # None
    THEN <<ToString(TheValue(q).id), "_", ToString(qr.id)>>
    ELSE <<ToString(qr.id)>>

\* SETTINGS.download_file("w", f"assetdb_{identity}", ".json"): a new file
\* whose name is the prefix, a part no other file has, and the suffix.
DownloadFileName(qr, q, n) == <<"assetdb_">> \o Identity(qr, q) \o <<"-", ToString(n), ".json">>

\* json.dump(query_result.model_dump(mode="json"), f)
ResultFileContentPreview(qr) == [id |-> qr.id, rows |-> SomeRows(qr.rows)]
ResultFileContent(qr) == [id |-> qr.id, rows |-> qr.rows]

ResultFile(qr, q, n) == [name |-> DownloadFileName(qr, q, n), content |-> ResultFileContent(qr)]

ToolQueryResult(qr, q, saved_to) ==
    [result_id |-> qr.id,
     query_id |-> IF q # None THEN Some(TheValue(q).id) ELSE None,
     row_count |-> Len(qr.rows),
     some_rows |-> SomeRows(qr.rows),
     full_results_saved_to |-> saved_to,
     alternate_formats |-> IF q # None
                           THEN Some(get_query_result_urls(TheValue(q), qr))
                           ELSE None]

----------------------------------------------------------------------------
\* One query execution.

QInit ==
    /\ entry = "none"
    /\ query_id = None
    /\ timeout = 0
    /\ pc = "idle"
    /\ response = "none"
    /\ now = 0
    /\ cutoff = 0
    /\ interval_s = 0
    /\ job = NoJob
    /\ sleepFor = 0
    /\ sleeps = <<>>
    /\ requests = <<>>
    /\ result_id = None
    /\ query_result = None
    /\ tool_result = None
    /\ error = None
    /\ files = <<>>

\* The tools validate timeout (ge=5, le=300) before the body runs; the client
\* methods take any int.
TimeoutAccepted(e, t) == e = "client" \/ (ToolMinTimeout <= t /\ t <= ToolMaxTimeout)

\* assetdb_query_result / assetdb_sql_query called, or execute_saved_query /
\* execute_adhoc_query called directly.
Call ==
    /\ pc = "idle"
    /\ \E e \in {"tool", "client"}, q \in {None, Some(QUERY_ID)}, t \in Timeouts :
        /\ entry' = e
        /\ query_id' = q
        /\ timeout' = t
        /\ IF TimeoutAccepted(e, t)
           THEN pc' = "submit" /\ error' = error
           ELSE pc' = "rejected" /\ error' = Raise("validation", <<"timeout">>)
    /\ UNCHANGED <<nonquery, response, now, cutoff, interval_s, job, sleepFor, sleeps, requests,
                   result_id, query_result, tool_result, files>>

\* _tool_query_result: the file is written, then the result is built.
ToolReturn(qr, q) ==
    LET f == ResultFile(qr, q, Len(files) + 1)
    IN  /\ files' = Append(files, f)
        /\ tool_result' = Some(ToolQueryResult(qr, q, f.name))

\* What follows a QueryResult in hand: the tool's saved-query lookup, or the end.
AfterResult(qr) ==
    /\ query_result' = Some(qr)
    /\ IF entry = "tool" /\ query_id # None
       THEN pc' = "get_query" /\ UNCHANGED <<tool_result, files>>
       ELSE /\ pc' = "done"
            /\ IF entry = "tool"
               THEN ToolReturn(qr, None)
               ELSE UNCHANGED <<tool_result, files>>

\* _execute_results: the POST fails (raise_for_status).
SubmitHttpError ==
    /\ pc = "submit"
    /\ requests' = Append(requests, Request("POST", SubmitEndpoint(query_id)))
    /\ error' = HttpError
    /\ pc' = "error"
    /\ UNCHANGED <<nonquery, response, entry, query_id, timeout, now, cutoff, interval_s, job, sleepFor,
                   sleeps, result_id, query_result, tool_result, files>>

\* _execute_results: the POST answers with a "query_result".
SubmitSyncRefetch ==
    /\ pc = "submit"
    /\ requests' = Append(requests, Request("POST", SubmitEndpoint(query_id)))
    /\ response' = "query_result"
    /\ result_id' = Some(RESULT_ID)
    /\ pc' = "get_result"
    /\ UNCHANGED <<nonquery, entry, query_id, timeout, now, cutoff, interval_s, job,
                   sleepFor, sleeps, query_result, tool_result, error, files>>
SubmitSync ==
    /\ pc = "submit"
    /\ requests' = Append(requests, Request("POST", SubmitEndpoint(query_id)))
    /\ response' = "query_result"
    /\ \E rows \in RowSeqs : AfterResult(QueryResultOf(RESULT_ID, rows))
    /\ UNCHANGED <<nonquery, entry, query_id, timeout, now, cutoff, interval_s, job, sleepFor,
                   sleeps, result_id, error>>

\* _execute_results: the POST answers with a "job"; _poll_job starts.
SubmitJob ==
    /\ pc = "submit"
    /\ requests' = Append(requests, Request("POST", SubmitEndpoint(query_id)))
    /\ response' = "job"
    /\ \E j \in Jobs : job' = j
    /\ cutoff' = Cutoff(now, timeout)
    /\ interval_s' = InitialInterval
    /\ pc' = "poll"
    /\ UNCHANGED <<nonquery, entry, query_id, timeout, now, sleepFor, sleeps, result_id,
                   query_result, tool_result, error, files>>

\* _poll_job: the GET api/jobs/{id} fails.
FetchJobHttpErrorRetry ==
    /\ pc = "poll"
    /\ requests' = Append(requests, Request("GET", JobEndpoint(job)))
    /\ \E d \in 0 .. MaxFetchTime : now' = now + d
    /\ pc' = "poll"
    /\ UNCHANGED <<nonquery, response, entry, query_id, timeout, cutoff, interval_s, job, sleepFor,
                   sleeps, result_id, query_result, tool_result, files, error>>
FetchJobHttpError ==
    /\ pc = "poll"
    /\ requests' = Append(requests, Request("GET", JobEndpoint(job)))
    /\ \E d \in 0 .. MaxFetchTime : now' = now + d
    /\ error' = HttpError
    /\ pc' = "error"
    /\ UNCHANGED <<nonquery, response, entry, query_id, timeout, cutoff, interval_s, job, sleepFor,
                   sleeps, result_id, query_result, tool_result, files>>

\* _poll_job: one fetch and what the loop body does with it.
FetchJob ==
    /\ pc = "poll"
    /\ requests' = Append(requests, Request("GET", JobEndpoint(job)))
    /\ \E d \in 0 .. MaxFetchTime, j \in Jobs :
        LET remaining_s == cutoff - (now + d)
            decision == PollDecision(j, remaining_s)
        IN  /\ now' = now + d
            /\ job' = j
            /\ CASE decision = "return" ->
                      /\ result_id' = j.query_result_id
                      /\ pc' = "get_result"
                      /\ UNCHANGED <<nonquery, response, error, sleepFor>>
                 [] decision = "fail" ->
                      /\ error' = Raise("failed", FailureMessage(j))
                      /\ pc' = "error"
                      /\ UNCHANGED <<nonquery, response, result_id, sleepFor>>
                 [] decision = "timeout" ->
                      /\ error' = Raise("timeout", TimeoutMessage(timeout))
                      /\ pc' = "error"
                      /\ UNCHANGED <<nonquery, response, result_id, sleepFor>>
                 [] OTHER ->
                      /\ sleepFor' = SleepDuration(interval_s, remaining_s)
                      /\ pc' = "sleep"
                      /\ UNCHANGED <<nonquery, response, result_id, error>>
    /\ UNCHANGED <<nonquery, response, entry, query_id, timeout, cutoff, interval_s, sleeps,
                   query_result, tool_result, files>>

\* _poll_job: the sleep ends, the interval doubles.
SleepThenCheckDeadline ==
    /\ pc = "sleep"
    /\ now' = now + sleepFor
    /\ sleeps' = Append(sleeps, sleepFor)
    /\ interval_s' = NextInterval(interval_s)
    /\ IF DeadlinePassed(cutoff - (now + sleepFor))
       THEN pc' = "error" /\ error' = Raise("timeout", TimeoutMessage(timeout))
       ELSE pc' = "poll" /\ error' = error
    /\ UNCHANGED <<nonquery, response, entry, query_id, timeout, cutoff, job, sleepFor, requests,
                   result_id, query_result, tool_result, files>>
Sleep ==
    /\ pc = "sleep"
    /\ now' = now + sleepFor
    /\ sleeps' = Append(sleeps, sleepFor)
    /\ interval_s' = NextInterval(interval_s)
    /\ pc' = "poll"
    /\ UNCHANGED <<nonquery, response, entry, query_id, timeout, cutoff, job, sleepFor, requests,
                   result_id, query_result, tool_result, error, files>>

\* _execute_results: GET api/query_results/{result_id} fails.
GetResultHttpError ==
    /\ pc = "get_result"
    /\ requests' = Append(requests, Request("GET", ResultEndpoint(TheValue(result_id))))
    /\ error' = HttpError
    /\ pc' = "error"
    /\ UNCHANGED <<nonquery, response, entry, query_id, timeout, now, cutoff, interval_s, job, sleepFor,
                   sleeps, result_id, query_result, tool_result, files>>

\* _execute_results: GET api/query_results/{result_id} answers.
GetResult ==
    /\ pc = "get_result"
    /\ requests' = Append(requests, Request("GET", ResultEndpoint(TheValue(result_id))))
    /\ \E rows \in RowSeqs : AfterResult(QueryResultOf(TheValue(result_id), rows))
    /\ UNCHANGED <<nonquery, response, entry, query_id, timeout, now, cutoff, interval_s, job, sleepFor,
                   sleeps, result_id, error>>

\* assetdb_query_result: client.get_query(query_id) fails.
GetQueryHttpError ==
    /\ pc = "get_query"
    /\ requests' = Append(requests, Request("GET", QueryEndpoint(TheValue(query_id))))
    /\ error' = HttpError
    /\ pc' = "error"
    /\ UNCHANGED <<nonquery, response, entry, query_id, timeout, now, cutoff, interval_s, job, sleepFor,
                   sleeps, result_id, query_result, tool_result, files>>

\* assetdb_query_result: client.get_query(query_id), then _tool_query_result.
GetQuery ==
    /\ pc = "get_query"
    /\ requests' = Append(requests, Request("GET", QueryEndpoint(TheValue(query_id))))
    /\ ToolReturn(TheValue(query_result), Some(QueryOf(TheValue(query_id))))
    /\ pc' = "done"
    /\ UNCHANGED <<nonquery, response, entry, query_id, timeout, now, cutoff, interval_s, job, sleepFor,
                   sleeps, result_id, query_result, error>>

QNext ==
    \/ Call
    \/ SubmitHttpError
    \/ SubmitSync
    \/ SubmitJob
    \/ FetchJobHttpError
    \/ FetchJob
    \/ Sleep
    \/ GetResultHttpError
    \/ GetResult
    \/ GetQueryHttpError
    \/ GetQuery

----------------------------------------------------------------------------
\* platform_graphql_query (platform/tools.py) and PlatformClient.query
\* (platform/graphql.py).

\* platform_allow_mutations: bool = Field(default=False)
platform_allow_mutations == FALSE

\* A query document is modelled by the types of its operations, in order:
\* "query { foo } mutation { bar }" is <<"query", "mutation">>; the empty
\* string is <<>>.
Documents ==
    {<<>>, <<"query">>, <<"query", "query">>, <<"mutation">>,
     <<"mutation", "mutation">>, <<"query", "mutation">>}

\* The variables argument: absent, {} or a dict with one entry.
VariablesArgs == {None, Some({}), Some({"limit"})}

\* Field(min_length=1) on the query argument.
QueryAccepted(q) == Len(q) >= 1

\* variables or {}
VariablesOrEmpty(v) == IF v # None /\ TheValue(v) # {} THEN TheValue(v) ELSE {}

StatusCodes == {200, 400, 403, 500, 502}

\* The body of a response: text that is not JSON, JSON that is not an object,
\* or a JSON object whose "data" and "errors" members are each absent or of
\* one of these shapes.
DataShapes == {"absent", "null", "string", "array", "empty_object", "object"}
ErrorsShapes == {"absent", "null", "string", "empty_array", "errors", "errors_without_message"}

Bodies ==
    {[json |-> "invalid", data |-> "absent", errors |-> "absent"],
     [json |-> "array", data |-> "absent", errors |-> "absent"]}
    \cup [json : {"object"}, data : DataShapes, errors : ErrorsShapes]

\* response.text: each body has its own text.
ResponseText(body) == <<body.json, body.data, body.errors>>

Responses == [status_code : StatusCodes, body : Bodies]

\* if raw_errors := raw_result.get("errors")
TruthyErrors(shape) == shape \in {"string", "errors", "errors_without_message"}
\* [GraphQLError(**error) for error in raw_errors] raises
ErrorsRaise(shape) == shape \in {"string", "errors_without_message"}
\* data: dict[str, Any] | None
DataValidates(shape) == shape \in {"absent", "null", "empty_object", "object"}
\* self.data of the model
TruthyData(shape) == shape = "object"

\* raw_result.get("data") / errors, as the model holds them: None for an
\* absent or null member.
ModelData(shape) == IF shape \in {"absent", "null"} THEN None ELSE Some(shape)
ModelErrors(shape) == IF TruthyErrors(shape) THEN Some(shape) ELSE None

GRaise(kind, message) == Some([kind |-> kind, message |-> message])

UnexpectedResponse(resp) ==
    GRaise("unexpected", <<"Unexpected response: ">> \o ResponseText(resp.body))

\* The try block of PlatformClient.query: TRUE when it raises.
ParseRaises(resp) ==
    LET body == resp.body
    IN  \/ body.json = "invalid"
        \/ body.json = "array"
        \/ (TruthyErrors(body.errors) /\ ErrorsRaise(body.errors))
        \/ ~DataValidates(body.data)
        \/ ~(TruthyData(body.data) \/ TruthyErrors(body.errors))

\* PlatformClient.query after the POST is answered.
ResponseRaisesForStatus(resp) == resp.status_code >= 400 \/ ParseRaises(resp)
ResponseRaises(resp) == ParseRaises(resp)

GraphQLQueryResult(q, v, resp) ==
    [query |-> q,
     variables |-> v,
     data |-> ModelData(resp.body.data),
     errors |-> ModelErrors(resp.body.errors)]

GInit ==
    /\ gpc = "idle"
    /\ gquery = <<>>
    /\ gvariables = None
    /\ grequests = <<>>
    /\ gresponse = None
    /\ gresult = None
    /\ gerror = None

\* platform_graphql_query called: the arguments are validated, then
\* client.query(query, variables or {}) builds request_data.
GraphQLCall ==
    /\ gpc = "idle"
    /\ \E q \in Documents, v \in VariablesArgs :
        /\ gquery' = q
        /\ gvariables' = v
        /\ IF QueryAccepted(q)
           THEN gpc' = "post" /\ gerror' = gerror
           ELSE gpc' = "rejected" /\ gerror' = GRaise("validation", <<"query">>)
    /\ UNCHANGED <<nongraphql, grequests, gresponse, gresult>>

\* self.session.post raises (no response).
GraphQLPostFails ==
    /\ gpc = "post"
    /\ grequests' = Append(grequests,
                           [query |-> gquery, variables |-> VariablesOrEmpty(gvariables)])
    /\ gerror' = GRaise("transport", <<"httpx.TransportError">>)
    /\ gpc' = "error"
    /\ UNCHANGED <<nongraphql, gquery, gvariables, gresponse, gresult>>

\* self.session.post answers; the response is parsed.
GraphQLPost ==
    /\ gpc = "post"
    /\ grequests' = Append(grequests,
                           [query |-> gquery, variables |-> VariablesOrEmpty(gvariables)])
    /\ \E resp \in Responses :
        /\ gresponse' = Some(resp)
        /\ IF ResponseRaises(resp)
           THEN /\ gerror' = UnexpectedResponse(resp)
                /\ gpc' = "error"
                /\ gresult' = gresult
           ELSE /\ gresult' = Some(GraphQLQueryResult(gquery, VariablesOrEmpty(gvariables),
                                                      resp))
                /\ gpc' = "done"
                /\ gerror' = gerror
    /\ UNCHANGED <<nongraphql, gquery, gvariables>>

GNext ==
    \/ GraphQLCall
    \/ GraphQLPostFails
    \/ GraphQLPost

----------------------------------------------------------------------------
\* PlatformClient.get_schema (platform/graphql.py), called by tool
\* invocations that run as tasks of one event loop: a task runs without
\* interruption from one await to the next.

MaxTasks == 2
Tasks == 1 .. MaxTasks

\* The callers of get_schema.
SchemaOps == {"get_schema", "list_types", "get_types"}

\* A type name is modelled by its rank in the lexicographic order of the
\* names: Account, AccountList, Query are 1, 2, 3.
TypeNames == 1 .. 3

\* The type maps the backend may describe in an introspection answer.
TypeMaps == {{1, 2, 3}, {1, 3}}

\* build_client_schema({"__schema": schema}): a new object each time.
build_client_schema(n, tm) == [obj |-> n, type_map |-> tm]

IdleTask == [pc |-> "idle", op |-> "none", schema |-> None, error |-> None]

\* if self._schema_cache is not None
CacheHit(cache) == cache # None

SInit ==
    /\ schema_cache = None
    /\ stask = [t \in Tasks |-> IdleTask]
    /\ srequests = <<>>
    /\ sbuilt = 0

\* get_schema up to its first await: the cached schema is returned, or the
\* introspection POST is sent.
SchemaCall(t) ==
    /\ stask[t].pc = "idle"
    /\ \E op \in SchemaOps :
        IF CacheHit(schema_cache)
        THEN /\ stask' = [stask EXCEPT ![t] = [pc |-> "done", op |-> op,
                                               schema |-> schema_cache, error |-> None]]
             /\ srequests' = srequests
        ELSE /\ stask' = [stask EXCEPT ![t] = [pc |-> "awaiting", op |-> op,
                                               schema |-> None, error |-> None]]
             /\ srequests' = Append(srequests, t)
    /\ UNCHANGED <<nonschema, schema_cache, sbuilt>>

\* The introspection answer raises: raise_for_status, GraphQL errors, or no
\* schema data.
SchemaFailsCachesEmpty(t) ==
    /\ stask[t].pc = "awaiting"
    /\ \E kind \in {"http", "introspection_errors", "no_schema_data"} :
        stask' = [stask EXCEPT ![t].pc = "error", ![t].error = Some(kind)]
    /\ schema_cache' = Some(build_client_schema(0, {}))
    /\ UNCHANGED <<nonschema, srequests, sbuilt>>
SchemaFails(t) ==
    /\ stask[t].pc = "awaiting"
    /\ \E kind \in {"http", "introspection_errors", "no_schema_data"} :
        stask' = [stask EXCEPT ![t].pc = "error", ![t].error = Some(kind)]
    /\ UNCHANGED <<nonschema, schema_cache, srequests, sbuilt>>

\* The introspection answer carries a schema: it is built, cached and returned.
SchemaBuilt(t) ==
    /\ stask[t].pc = "awaiting"
    /\ \E tm \in TypeMaps :
        LET schema == build_client_schema(sbuilt + 1, tm)
        IN  /\ schema_cache' = Some(schema)
            /\ stask' = [stask EXCEPT ![t].pc = "done", ![t].schema = Some(schema)]
    /\ sbuilt' = sbuilt + 1
    /\ UNCHANGED <<nonschema, srequests>>

SNext == \E t \in Tasks : SchemaCall(t) \/ SchemaFails(t) \/ SchemaBuilt(t)

----------------------------------------------------------------------------
\* PlatformClient.get_types (platform/graphql.py), after get_schema returned.

\* The requested lists have at most MaxAsked names.
MaxAsked == 3
AskedLists == UNION {[1 .. n -> TypeNames] : n \in 0 .. MaxAsked}

\* set(type_names)
SetOf(names) == {names[i] : i \in DOMAIN names}

\* sorted(s): the least name first.
RECURSIVE Sorted(_)
Sorted(s) ==
    IF s = {} THEN <<>>
    ELSE LET least == CHOOSE n \in s : \A k \in s : n <= k
         IN  <<least>> \o Sorted(s \ {least})

\* The names the loop visits: sorted(set(type_names)).
LoopNamesAsGiven(names) == names
LoopNames(names) == Sorted(SetOf(names))

\* print_type(match)
print_type(name) == <<"type", name>>

\* The loop body, for the names still to visit.
RECURSIVE GetTypesLoop(_, _, _, _)
GetTypesLoop(names, tm, found, missing) ==
    IF names = <<>> THEN [found |-> found, missing |-> missing]
    ELSE LET type_name == Head(names)
         IN  IF type_name \in tm
             THEN GetTypesLoop(Tail(names), tm,
                               [n \in DOMAIN found \cup {type_name} |->
                                   IF n = type_name THEN print_type(n) ELSE found[n]],
                               missing)
             ELSE GetTypesLoop(Tail(names), tm, found, Append(missing, type_name))

GetTypesResult(names, tm) ==
    LET out == GetTypesLoop(LoopNames(names), tm, <<>>, <<>>)
    IN  [asked_for |-> names, found_sdl |-> out.found, not_found |-> out.missing]

TInit ==
    /\ tpc = "idle"
    /\ type_names = <<>>
    /\ type_map = {}
    /\ types_result = None

\* get_types called; get_schema returns a schema.
GetTypesCall ==
    /\ tpc = "idle"
    /\ \E names \in AskedLists, tm \in SUBSET TypeNames :
        /\ type_names' = names
        /\ type_map' = tm
    /\ tpc' = "schema"
    /\ UNCHANGED <<nontypes, types_result>>

\* The loop over the requested names and the result.
GetTypes ==
    /\ tpc = "schema"
    /\ types_result' = Some(GetTypesResult(type_names, type_map))
    /\ tpc' = "done"
    /\ UNCHANGED <<nontypes, type_names, type_map>>

TNext == GetTypesCall \/ GetTypes

----------------------------------------------------------------------------
\* The server-global cache: ServerState.ensure_cached and server_cached
\* (lifespan.py), StackletCredentials.get (stacklet_auth.py) and the get
\* classmethods of the three clients.  ensure_cached contains no await: a
\* get runs without interruption, whatever tasks are in flight.

STACKLET_CREDS == "STACKLET_CREDS"
ClientKeys == {"ASSETDB_CLIENT", "PLATFORM_CLIENT", "DOCS_CLIENT"}
CacheKeys == {STACKLET_CREDS} \cup ClientKeys

\* load_stacklet_auth may raise (credentials missing) at most
\* MaxLoadFailures times in a run of the model.
MaxLoadFailures == 1

\* The n-th object constructed for a key; a client holds the credentials
\* object it was constructed with.
CachedObject(key, n, credentials) == [key |-> key, n |-> n, credentials |-> credentials]

\* ensure_cached: obj = self.get(key); if obj is None
NeedsConstructAlways(obj) == TRUE
NeedsConstruct(obj) == obj = None

IdleCacheTask == [pc |-> "idle", key |-> "none", obj |-> None]

CInit ==
    /\ server_state = [k \in CacheKeys |-> None]
    /\ ctask = [t \in Tasks |-> IdleCacheTask]
    /\ constructed = [k \in CacheKeys |-> 0]
    /\ load_failures = 0

\* StackletCredentials.get(ctx) when load_stacklet_auth raises: reached by
\* a get of the credentials or of a client that is not cached yet; nothing is
\* cached and the error propagates.
CachedGetLoadFails(t, key) ==
    /\ ctask[t].pc = "idle"
    /\ key = STACKLET_CREDS \/ NeedsConstruct(server_state[key])
    /\ NeedsConstruct(server_state[STACKLET_CREDS])
    /\ load_failures < MaxLoadFailures
    /\ load_failures' = load_failures + 1
    /\ ctask' = [ctask EXCEPT ![t] = [pc |-> "error", key |-> key, obj |-> None]]
    /\ UNCHANGED <<noncache, server_state, constructed>>

\* server_cached(ctx, key, construct), the credentials loading if asked.
CachedGet(t, key) ==
    /\ ctask[t].pc = "idle"
    /\ LET needs_creds ==
               key = STACKLET_CREDS \/ NeedsConstruct(server_state[key])
           loads == needs_creds /\ NeedsConstruct(server_state[STACKLET_CREDS])
           creds ==
               IF loads
               THEN CachedObject(STACKLET_CREDS, constructed[STACKLET_CREDS] + 1, None)
               ELSE TheValue(server_state[STACKLET_CREDS])
           builds == key # STACKLET_CREDS /\ NeedsConstruct(server_state[key])
           client ==
               IF builds
               THEN CachedObject(key, constructed[key] + 1, Some(creds))
               ELSE TheValue(server_state[key])
           obj == IF key = STACKLET_CREDS THEN creds ELSE client
       IN  /\ server_state' =
                  [k \in CacheKeys |->
                      IF k = STACKLET_CREDS /\ loads THEN Some(creds)
                      ELSE IF k = key /\ builds THEN Some(client)
                      ELSE server_state[k]]
           /\ constructed' =
                  [k \in CacheKeys |->
                      IF (k = STACKLET_CREDS /\ loads) \/ (k = key /\ builds)
                      THEN constructed[k] + 1
                      ELSE constructed[k]]
           /\ ctask' = [ctask EXCEPT ![t] = [pc |-> "running", key |-> key,
                                             obj |-> Some(obj)]]
    /\ UNCHANGED <<noncache, load_failures>>

\* The tool invocation ends (result or error); the task serves another.
CacheTaskEnds(t) ==
    /\ ctask[t].pc \in {"running", "error"}
    /\ ctask' = [ctask EXCEPT ![t] = IdleCacheTask]
    /\ UNCHANGED <<noncache, server_state, constructed, load_failures>>

CNext ==
    \E t \in Tasks :
        \/ \E key \in CacheKeys : CachedGetLoadFails(t, key)
        \/ \E key \in CacheKeys : CachedGet(t, key)
        \/ CacheTaskEnds(t)

----------------------------------------------------------------------------
\* Python values that travel as tool arguments, and json.dumps / json.loads
\* on them.  A value is a record with its type tag and, by type, its number
\* (int, and bool as 0 or 1), its characters (str), its items (list, and the
\* values of a dict) and its keys (dict).  A str is the sequence of its
\* characters.

PyValue(t, n, s, items, keys) == [t |-> t, n |-> n, s |-> s, items |-> items, keys |-> keys]

PyNone == PyValue("null", 0, <<>>, <<>>, <<>>)
PyBool(b) == PyValue("bool", IF b THEN 1 ELSE 0, <<>>, <<>>, <<>>)
PyInt(n) == PyValue("int", n, <<>>, <<>>, <<>>)
PyStr(chars) == PyValue("str", 0, chars, <<>>, <<>>)
PyList(items) == PyValue("list", 0, <<>>, items, <<>>)
PyDict(keys, values) == PyValue("dict", 0, <<>>, values, keys)

DigitChars == <<"0", "1", "2", "3", "4", "5", "6", "7", "8", "9">>
IsDigit(c) == \E d \in DOMAIN DigitChars : DigitChars[d] = c
DigitValue(c) == (CHOOSE d \in DOMAIN DigitChars : DigitChars[d] = c) - 1

RECURSIVE NatChars(_)
NatChars(n) ==
    IF n < 10 THEN <<DigitChars[n + 1]>>
    ELSE NatChars(n \div 10) \o <<DigitChars[(n % 10) + 1]>>

IntChars(n) == IF n < 0 THEN <<"-">> \o NatChars(0 - n) ELSE NatChars(n)

Quoted(chars) == <<"\"">> \o chars \o <<"\"">>

\* json.dumps(x), default separators ", " and ": ".
RECURSIVE dumps(_)
RECURSIVE DumpItems(_, _)
RECURSIVE DumpMembers(_, _, _)
DumpItems(items, i) ==
    IF i > Len(items) THEN <<>>
    ELSE (IF i > 1 THEN <<",", " ">> ELSE <<>>) \o dumps(items[i]) \o DumpItems(items, i + 1)
DumpMembers(keys, values, i) ==
    IF i > Len(keys) THEN <<>>
    ELSE (IF i > 1 THEN <<",", " ">> ELSE <<>>)
         \o Quoted(keys[i]) \o <<":", " ">> \o dumps(values[i])
         \o DumpMembers(keys, values, i + 1)
dumps(x) ==
    CASE x.t = "null" -> <<"n", "u", "l", "l">>
      [] x.t = "bool" -> IF x.n = 1 THEN <<"t", "r", "u", "e">>
                         ELSE <<"f", "a", "l", "s", "e">>
      [] x.t = "int" -> IntChars(x.n)
      [] x.t = "str" -> Quoted(x.s)
      [] x.t = "list" -> <<"[">> \o DumpItems(x.items, 1) \o <<"]">>
      [] x.t = "dict" -> <<"{">> \o DumpMembers(x.keys, x.items, 1) \o <<"}">>

\* json.loads(s): the decoder, as a scanner over the characters.  A parse
\* step answers whether it matched, the value and the next position.
Parsed(v, i) == [ok |-> TRUE, v |-> v, i |-> i]
NoParse == [ok |-> FALSE, v |-> PyNone, i |-> 0]

RECURSIVE SkipWhitespace(_, _)
SkipWhitespace(s, i) ==
    IF i <= Len(s) /\ s[i] = " " THEN SkipWhitespace(s, i + 1) ELSE i

StartsWith(s, i, lit) ==
    /\ i + Len(lit) - 1 <= Len(s)
    /\ SubSeq(s, i, i + Len(lit) - 1) = lit

RECURSIVE ScanDigits(_, _, _)
ScanDigits(s, i, acc) ==
    IF i <= Len(s) /\ IsDigit(s[i])
    THEN ScanDigits(s, i + 1, acc * 10 + DigitValue(s[i]))
    ELSE [n |-> acc, i |-> i]

\* -?(0|[1-9][0-9]*)
ScanNatural(s, i) ==
    IF i > Len(s) \/ ~IsDigit(s[i]) THEN NoParse
    ELSE IF s[i] = "0" THEN Parsed(PyInt(0), i + 1)
    ELSE LET d == ScanDigits(s, i, 0) IN Parsed(PyInt(d.n), d.i)

ScanNumber(s, i) ==
    IF i <= Len(s) /\ s[i] = "-"
    THEN LET r == ScanNatural(s, i + 1)
         IN  IF r.ok THEN Parsed(PyInt(0 - r.v.n), r.i) ELSE NoParse
    ELSE ScanNatural(s, i)

\* The closing quote of the string opened before position i (0: none).
\* Escape sequences are left out: no argument of the model has a backslash.
RECURSIVE ClosingQuote(_, _)
ClosingQuote(s, i) ==
    IF i > Len(s) \/ s[i] = "\\" THEN 0
    ELSE IF s[i] = "\"" THEN i
    ELSE ClosingQuote(s, i + 1)

ScanString(s, i) ==
    IF i > Len(s) \/ s[i] # "\"" THEN NoParse
    ELSE LET close == ClosingQuote(s, i + 1)
         IN  IF close = 0 THEN NoParse
             ELSE Parsed(PyStr(SubSeq(s, i + 1, close - 1)), close + 1)

RECURSIVE ScanValue(_, _)
RECURSIVE ScanItems(_, _, _)
RECURSIVE ScanMembers(_, _, _, _)

\* After "[" and a first value: "," value ... "]".
ScanItems(s, i, items) ==
    LET r == ScanValue(s, i)
    IN  IF ~r.ok THEN NoParse
        ELSE LET k == SkipWhitespace(s, r.i)
                 sofar == Append(items, r.v)
             IN  IF k > Len(s) THEN NoParse
                 ELSE IF s[k] = "]" THEN Parsed(PyList(sofar), k + 1)
                 ELSE IF s[k] = "," THEN ScanItems(s, SkipWhitespace(s, k + 1), sofar)
                 ELSE NoParse

\* After "{": "key" ":" value, then "," ... or "}".
ScanMembers(s, i, keys, values) ==
    LET key == ScanString(s, i)
    IN  IF ~key.ok THEN NoParse
        ELSE LET c == SkipWhitespace(s, key.i)
             IN  IF c > Len(s) \/ s[c] # ":" THEN NoParse
                 ELSE LET r == ScanValue(s, SkipWhitespace(s, c + 1))
                      IN  IF ~r.ok THEN NoParse
                          ELSE LET k == SkipWhitespace(s, r.i)
                                   ks == Append(keys, key.v.s)
                                   vs == Append(values, r.v)
                               IN  IF k > Len(s) THEN NoParse
                                   ELSE IF s[k] = "}" THEN Parsed(PyDict(ks, vs), k + 1)
                                   ELSE IF s[k] = ","
                                   THEN ScanMembers(s, SkipWhitespace(s, k + 1), ks, vs)
                                   ELSE NoParse

ScanValue(s, i) ==
    IF i > Len(s) THEN NoParse
    ELSE IF StartsWith(s, i, <<"n", "u", "l", "l">>) THEN Parsed(PyNone, i + 4)
    ELSE IF StartsWith(s, i, <<"t", "r", "u", "e">>) THEN Parsed(PyBool(TRUE), i + 4)
    ELSE IF StartsWith(s, i, <<"f", "a", "l", "s", "e">>) THEN Parsed(PyBool(FALSE), i + 5)
    ELSE IF s[i] = "\"" THEN ScanString(s, i)
    ELSE IF s[i] = "[" THEN
        LET k == SkipWhitespace(s, i + 1)
        IN  IF k <= Len(s) /\ s[k] = "]" THEN Parsed(PyList(<<>>), k + 1)
            ELSE ScanItems(s, k, <<>>)
    ELSE IF s[i] = "{" THEN
        LET k == SkipWhitespace(s, i + 1)
        IN  IF k <= Len(s) /\ s[k] = "}" THEN Parsed(PyDict(<<>>, <<>>), k + 1)
            ELSE ScanMembers(s, k, <<>>, <<>>)
    ELSE ScanNumber(s, i)

\* json.loads(s): ok is FALSE where it raises JSONDecodeError.
loads(s) ==
    LET r == ScanValue(s, SkipWhitespace(s, 1))
    IN  IF r.ok /\ SkipWhitespace(s, r.i) = Len(s) + 1 THEN r ELSE NoParse

----------------------------------------------------------------------------
\* json_guard (utils/json.py) and the validation of a tool argument: the
\* Field constraints of the tools (assetdb/tools.py, platform/tools.py) and
\* the validators of the export models (platform/models.py).

\* The parameters of the model: type_names (platform_graphql_get_types),
\* max_age and parameters (assetdb_query_result), columns, params and
\* filename (the dataset export input).
Params == {"type_names", "max_age", "parameters", "columns", "params", "filename"}

\* is_class_member_of_type(typ, str): filename is str | None.
AcceptsStr(p) == p = "filename"

NAME == <<"n", "a", "m", "e">>
PATH == <<"p", "a", "t", "h">>
TYPE == <<"t", "y", "p", "e">>
VALUE_JSON == <<"v", "a", "l", "u", "e", "J", "S", "O", "N">>

\* Integer arguments run from -2 to MaxIntArg.
MaxIntArg == 2

ExportColumnArg(name) == PyDict(<<NAME, PATH>>, <<PyStr(name), PyStr(<<"p">>)>>)
ExportParamArg(name, value_json) ==
    PyDict(<<NAME, TYPE, VALUE_JSON>>, <<PyStr(name), PyStr(<<"t">>), PyStr(value_json)>>)

\* Strings a caller may deliver that are no json.dumps of anything meant:
\* the empty string, text that is not JSON, a JSON string, an unfinished
\* list, a list with blanks.
RawStrings ==
    {PyStr(<<>>), PyStr(<<"a", "b", "c">>), PyStr(<<"\"", "a", "\"">>), PyStr(<<"[">>),
     PyStr(<<" ", "[", " ", "]", " ">>)}

\* The values a caller may mean for a parameter, valid and not.
ArgValues(p) ==
    CASE p = "type_names" ->
             {PyList(<<>>), PyList(<<PyStr(<<"a">>)>>),
              PyList(<<PyStr(<<"a">>), PyStr(<<"b">>)>>),
              PyList(<<PyStr(<<"a">>), PyStr(<<"a">>)>>),
              PyList(<<PyInt(1)>>), PyInt(5), PyNone} \cup RawStrings
      [] p = "max_age" ->
             {PyInt(n) : n \in (0 - 2) .. MaxIntArg} \cup {PyNone, PyList(<<>>)} \cup RawStrings
      [] p = "parameters" ->
             {PyNone, PyDict(<<>>, <<>>), PyDict(<<<<"a">>>>, <<PyInt(1)>>),
              PyDict(<<<<"a">>, <<"b">>>>, <<PyStr(<<"x">>), PyList(<<PyBool(TRUE)>>)>>),
              PyList(<<>>), PyInt(1)} \cup RawStrings
      [] p = "columns" ->
             {PyList(<<>>), PyList(<<ExportColumnArg(<<"a">>)>>),
              PyList(<<ExportColumnArg(<<"a">>), ExportColumnArg(<<"b">>)>>),
              PyList(<<ExportColumnArg(<<"a">>), ExportColumnArg(<<"a">>)>>),
              PyList(<<PyDict(<<NAME>>, <<PyStr(<<"a">>)>>)>>),
              PyList(<<ExportColumnArg(<<>>)>>), PyNone} \cup RawStrings
      [] p = "params" ->
             {PyNone, PyList(<<>>), PyList(<<ExportParamArg(<<"a">>, <<"1">>)>>),
              PyList(<<ExportParamArg(<<"a">>, <<"1">>), ExportParamArg(<<"b">>, <<"[", "]">>)>>),
              PyList(<<ExportParamArg(<<"a">>, <<"1">>), ExportParamArg(<<"a">>, <<"2">>)>>),
              PyList(<<ExportParamArg(<<"a">>, <<"x">>)>>), PyInt(1)} \cup RawStrings
      [] p = "filename" ->
             {PyNone, PyStr(<<"a">>), PyStr(<<"a", "/", "b">>), PyStr(<<"a", ":", "b">>),
              PyStr(<<>>), PyInt(1)}

\* How the caller delivers a value: as it is, or JSON-encoded in a string.
Mangles == {"identity", "json.dumps"}
Mangle(how, x) == IF how = "json.dumps" THEN PyStr(dumps(x)) ELSE x

\* _maybe_load_json: the value handed on, or raises.
MaybeLoadJsonPassThrough(value) ==
    LET loaded ==
            IF value.t = "str" /\ value.s # <<>> /\ loads(value.s).ok
            THEN loads(value.s).v
            ELSE value
    IN  [raises |-> FALSE, value |-> loaded]
MaybeLoadJsonNoDecode(value) == [raises |-> value.t = "str", value |-> value]
MaybeLoadJson(value) ==
    LET loaded ==
            IF value.t = "str"
            THEN IF value.s # <<>>
                 THEN IF loads(value.s).ok THEN loads(value.s).v ELSE value
                 ELSE PyNone
            ELSE value
    IN  [raises |-> loaded.t = "str", value |-> loaded]

\* The BeforeValidator json_guard adds, for a type that does not accept str.
Guarded(p, value) ==
    IF AcceptsStr(p) THEN [raises |-> FALSE, value |-> value] ELSE MaybeLoadJson(value)

\* d[key] of a dict; HasKey first.
HasKey(d, key) == \E i \in DOMAIN d.keys : d.keys[i] = key
DictGet(d, key) == d.items[CHOOSE i \in DOMAIN d.keys : d.keys[i] = key]

\* A str field with Field(min_length=1).
NonEmptyStr(d, key) == HasKey(d, key) /\ DictGet(d, key).t = "str" /\ DictGet(d, key).s # <<>>

\* ExportColumn: name and path.
IsExportColumn(d) == d.t = "dict" /\ NonEmptyStr(d, NAME) /\ NonEmptyStr(d, PATH)

\* ExportParam: name, type and valueJSON, which must be JSON.
IsExportParam(d) ==
    /\ d.t = "dict"
    /\ NonEmptyStr(d, NAME)
    /\ NonEmptyStr(d, TYPE)
    /\ NonEmptyStr(d, VALUE_JSON)
    /\ loads(DictGet(d, VALUE_JSON).s).ok

\* validate_unique_column_names / validate_unique_param_names:
\* len(names) == len(set(names))
UniqueNamesUnchecked(items) == TRUE
UniqueNames(items) ==
    Cardinality({DictGet(items[i], NAME).s : i \in DOMAIN items}) = Len(items)

\* validate_filename
FilenameOk(chars) ==
    /\ \A i \in DOMAIN chars : chars[i] \notin {"/", ":"}
    /\ Len(chars) <= 980

\* The validation of the value of a parameter, after the guard: the Field
\* constraints of the tool's signature, then the validators of the export
\* input the tool body builds before it asks for a client.
ArgValidates(p, v) ==
    CASE p = "type_names" ->
             /\ v.t = "list"
             /\ Len(v.items) >= 1
             /\ \A i \in DOMAIN v.items : v.items[i].t = "str"
      [] p = "max_age" -> v.t = "int" /\ v.n >= 0 - 1
      [] p = "parameters" -> v.t \in {"null", "dict"}
      [] p = "columns" ->
             /\ v.t = "list"
             /\ Len(v.items) >= 1
             /\ \A i \in DOMAIN v.items : IsExportColumn(v.items[i])
             /\ UniqueNames(v.items)
      [] p = "params" ->
             \/ v.t = "null"
             \/ /\ v.t = "list"
                /\ \A i \in DOMAIN v.items : IsExportParam(v.items[i])
                /\ UniqueNames(v.items)
      [] p = "filename" -> v.t = "null" \/ (v.t = "str" /\ FilenameOk(v.s))

AInit ==
    /\ apc = "idle"
    /\ aparam = "none"
    /\ avalue = PyNone
    /\ amangle = "identity"
    /\ aarg = PyNone
    /\ avalidated = None
    /\ arequests = <<>>
    /\ aerror = None

\* The tool is called with one argument.
GuardCall ==
    /\ apc = "idle"
    /\ \E p \in Params, how \in Mangles :
        \E x \in ArgValues(p) :
            /\ aparam' = p
            /\ avalue' = x
            /\ amangle' = how
            /\ aarg' = Mangle(how, x)
    /\ apc' = "validate"
    /\ UNCHANGED <<nonguard, avalidated, arequests, aerror>>

\* The guard raises, or the validation fails: the tool body does not run.
GuardRejects ==
    /\ apc = "validate"
    /\ LET g == Guarded(aparam, aarg)
       IN  /\ g.raises \/ ~ArgValidates(aparam, g.value)
           /\ aerror' = Some(IF g.raises THEN "json_guard" ELSE "validation")
    /\ apc' = "rejected"
    /\ UNCHANGED <<nonguard, aparam, avalue, amangle, aarg, avalidated, arequests>>

\* The argument is accepted: the tool body runs with the validated value.
GuardAccepts ==
    /\ apc = "validate"
    /\ LET g == Guarded(aparam, aarg)
       IN  /\ ~g.raises
           /\ ArgValidates(aparam, g.value)
           /\ avalidated' = Some(g.value)
    /\ apc' = "call"
    /\ UNCHANGED <<nonguard, aparam, avalue, amangle, aarg, arequests, aerror>>

\* The tool body sends its request, which carries the value.
GuardSend ==
    /\ apc = "call"
    /\ arequests' = Append(arequests, [param |-> aparam, value |-> TheValue(avalidated)])
    /\ apc' = "done"
    /\ UNCHANGED <<nonguard, aparam, avalue, amangle, aarg, avalidated, aerror>>

ANext ==
    \/ GuardCall
    \/ GuardRejects
    \/ GuardAccepts
    \/ GuardSend

----------------------------------------------------------------------------
\* The files the tools persist: the full query result (Settings.download_file
\* in settings.py, called by _tool_query_result in assetdb/tools.py) and the
\* export download (_download_export_file in platform/graphql.py).

\* At most MaxPersists persists are made, over the seconds 0 .. MaxClock.
MaxPersists == 3
MaxClock == 1

\* The random part tempfile.NamedTemporaryFile gives a name.
TempTokens == 1 .. MaxPersists

\* f"{query.id}_{query_result.id}" if query else f"{query_result.id}"
Identities == {Identity(QueryResultOf(RESULT_ID, <<>>), None),
               Identity(QueryResultOf(RESULT_ID, <<>>), Some(QueryOf(QUERY_ID)))}

\* export_input.download_path and export_input.filename (its parts between dots).
DownloadPaths == {None, Some(<<"/data/out.csv">>)}
Filenames == {None, Some(<<"report">>), Some(<<"report", "txt">>)}

PathsOnDisk == {f.path : f \in disk}

\* tempfile.NamedTemporaryFile(dir, prefix, suffix, delete=False): a name
\* that does not exist yet, the file created exclusively.
NamedTemporaryFile(prefix, token, suffix) == prefix \o <<"-", ToString(token)>> \o suffix

\* _download_export_file: the path the download is written to.
ExportSuffix(filename) ==
    IF filename # None /\ Len(TheValue(filename)) > 1
    THEN <<".", TheValue(filename)[Len(TheValue(filename))]>>
    ELSE <<".csv">>
ExportDownloadPath(download_path, filename, t) ==
    IF download_path # None
    THEN TheValue(download_path)
    ELSE <<"/tmp", "/platform_export_", ToString(t)>> \o ExportSuffix(filename)

\* open(path, "wb") and the writes: the file is created or replaced.
WriteFile(path, content) == {f \in disk : f.path # path} \cup {[path |-> path, content |-> content]}

DInit ==
    /\ disk = {}
    /\ dclock = 0
    /\ persisted = <<>>

\* The clock reaches the next second.
ClockTick ==
    /\ dclock < MaxClock
    /\ dclock' = dclock + 1
    /\ UNCHANGED <<nonfiles, disk, persisted>>

\* _tool_query_result: SETTINGS.download_file("w", f"assetdb_{identity}", ".json")
\* and json.dump into it.
PersistQueryResult ==
    /\ Len(persisted) < MaxPersists
    /\ \E ident \in Identities, token \in TempTokens :
        LET path == NamedTemporaryFile(<<"assetdb_">> \o ident, token, <<".json">>)
            content == Len(persisted) + 1
        IN  /\ path \notin PathsOnDisk
            /\ disk' = WriteFile(path, content)
            /\ persisted' = Append(persisted, [by |-> "query_result", path |-> path,
                                               content |-> content])
    /\ UNCHANGED <<nonfiles, dclock>>

\* _download_export_file: the download is written to its path.
PersistExport ==
    /\ Len(persisted) < MaxPersists
    /\ \E download_path \in DownloadPaths, filename \in Filenames :
        LET path == ExportDownloadPath(download_path, filename, dclock)
            content == Len(persisted) + 1
        IN  /\ disk' = WriteFile(path, content)
            /\ persisted' = Append(persisted, [by |-> "export", path |-> path,
                                               content |-> content])
    /\ UNCHANGED <<nonfiles, dclock>>

DNext ==
    \/ ClockTick
    \/ PersistQueryResult
    \/ PersistExport

----------------------------------------------------------------------------
\* The documentation tools: docs_list and docs_read (docs/tools.py) on one
\* DocsClient (docs/client.py).  A DocFile is modelled by its path.

\* Tasks 1 .. MaxDocTasks call the tools; MaxDocCalls calls are made in all.
MaxDocTasks == 2
MaxDocCalls == 3
DocTasks == 1 .. MaxDocTasks

INDEX_JSON == "index.json"
DocPaths == {"foo.md", "bar.md"}
FilePaths == DocPaths \cup {"some_other_file.md"}

\* What index.json may answer.
Indexes == {<<>>, <<"foo.md">>, <<"foo.md", "bar.md">>}

NOT_KNOWN == "Resource is not a known document file"

IdleDocTask ==
    [pc |-> "idle", op |-> "none", file_path |-> "", index |-> None, sent |-> <<>>,
     after |-> 0, result |-> None, error |-> None]

\* known_docs = {doc.path for doc in await self._get_index()}
KnownDocsAny(index) == FilePaths
KnownDocs(index) == {index[i] : i \in DOMAIN index}

\* get_index: `if not self._index` is true of the empty list.
IndexCached(index) == index # <<>>

CallsStarted == Len(dcalls) + Cardinality({t \in DocTasks : dtask[t].pc # "idle"})

OInit ==
    /\ docs_index = <<>>
    /\ dtask = [t \in DocTasks |-> IdleDocTask]
    /\ drequests = <<>>
    /\ dcalls = <<>>

\* docs_list: get_index answers from self._index, or _get_index sends the GET.
DocsListCall(t) ==
    /\ dtask[t].pc = "idle"
    /\ CallsStarted < MaxDocCalls
    /\ IF IndexCached(docs_index)
       THEN /\ dtask' = [dtask EXCEPT ![t] = [IdleDocTask EXCEPT
                            !.pc = "done", !.op = "docs_list", !.after = Len(dcalls),
                            !.result = Some(docs_index)]]
            /\ UNCHANGED drequests
       ELSE /\ dtask' = [dtask EXCEPT ![t] = [IdleDocTask EXCEPT
                            !.pc = "list_index", !.op = "docs_list", !.after = Len(dcalls),
                            !.sent = <<INDEX_JSON>>]]
            /\ drequests' = Append(drequests, [by |-> t, url |-> INDEX_JSON])
    /\ UNCHANGED <<nondocs, docs_index, dcalls>>

\* _get_index: the GET fails (raise_for_status).
DocsListIndexFails(t) ==
    /\ dtask[t].pc = "list_index"
    /\ dtask' = [dtask EXCEPT ![t].pc = "error", ![t].error = Some("HTTPStatusError")]
    /\ UNCHANGED <<nondocs, docs_index, drequests, dcalls>>

\* _get_index answers; get_index stores the listing and returns it.
DocsListIndex(t) ==
    /\ dtask[t].pc = "list_index"
    /\ \E index \in Indexes :
        /\ docs_index' = index
        /\ dtask' = [dtask EXCEPT ![t].pc = "done", ![t].index = Some(index),
                                  ![t].result = Some(index)]
    /\ UNCHANGED <<nondocs, drequests, dcalls>>

\* docs_read: get_doc_file sends the GET of the index.
DocsReadCall(t) ==
    /\ dtask[t].pc = "idle"
    /\ CallsStarted < MaxDocCalls
    /\ \E file_path \in FilePaths :
        dtask' = [dtask EXCEPT ![t] = [IdleDocTask EXCEPT
                     !.pc = "read_index", !.op = "docs_read", !.file_path = file_path,
                     !.after = Len(dcalls), !.sent = <<INDEX_JSON>>]]
    /\ drequests' = Append(drequests, [by |-> t, url |-> INDEX_JSON])
    /\ UNCHANGED <<nondocs, docs_index, dcalls>>

\* get_doc_file: the GET of the index fails.
DocsReadIndexFails(t) ==
    /\ dtask[t].pc = "read_index"
    /\ dtask' = [dtask EXCEPT ![t].pc = "error", ![t].error = Some("HTTPStatusError")]
    /\ UNCHANGED <<nondocs, docs_index, drequests, dcalls>>

\* get_doc_file: the index answers; an unknown resource raises, a known one
\* is asked for.
DocsReadIndex(t) ==
    /\ dtask[t].pc = "read_index"
    /\ \E index \in Indexes :
        IF dtask[t].file_path \notin KnownDocs(index)
        THEN /\ dtask' = [dtask EXCEPT ![t].pc = "error", ![t].index = Some(index),
                                       ![t].error = Some(NOT_KNOWN)]
             /\ UNCHANGED drequests
        ELSE /\ dtask' = [dtask EXCEPT ![t].pc = "read_doc", ![t].index = Some(index),
                                       ![t].sent = Append(@, dtask[t].file_path)]
             /\ drequests' = Append(drequests, [by |-> t, url |-> dtask[t].file_path])
    /\ UNCHANGED <<nondocs, docs_index, dcalls>>

\* get_doc_file: the GET of the document fails.
DocsReadDocFails(t) ==
    /\ dtask[t].pc = "read_doc"
    /\ dtask' = [dtask EXCEPT ![t].pc = "error", ![t].error = Some("HTTPStatusError")]
    /\ UNCHANGED <<nondocs, docs_index, drequests, dcalls>>

\* get_doc_file returns the DocContent.
DocsReadDoc(t) ==
    /\ dtask[t].pc = "read_doc"
    /\ dtask' = [dtask EXCEPT ![t].pc = "done",
                              ![t].result = Some(<<dtask[t].file_path>>)]
    /\ UNCHANGED <<nondocs, docs_index, drequests, dcalls>>

\* The call is over: its result or error reaches the caller.
DocsCallEnds(t) ==
    /\ dtask[t].pc \in {"done", "error"}
    /\ dcalls' = Append(dcalls, [dtask[t] EXCEPT !.pc = "idle"])
    /\ dtask' = [dtask EXCEPT ![t] = IdleDocTask]
    /\ UNCHANGED <<nondocs, docs_index, drequests>>

ONext ==
    \E t \in DocTasks :
        \/ DocsListCall(t)
        \/ DocsListIndexFails(t)
        \/ DocsListIndex(t)
        \/ DocsReadCall(t)
        \/ DocsReadIndexFails(t)
        \/ DocsReadIndex(t)
        \/ DocsReadDocFails(t)
        \/ DocsReadDoc(t)
        \/ DocsCallEnds(t)

----------------------------------------------------------------------------
\* The tool lists: tools() of assetdb/tools.py, docs/tools.py and
\* platform/tools.py, chained by make_server (server.py), under the feature
\* flags of settings.py.

\* At most MaxListings calls of the assetdb tools() are recorded.
MaxListings == 2

SettingNames == {"assetdb_allow_save", "assetdb_allow_archive", "platform_allow_mutations"}

\* The defaults of the three flags.
DefaultSettings == [n \in SettingNames |-> FALSE]

AssetdbReadTools ==
    <<"assetdb_sql_info", "assetdb_sql_query", "assetdb_query_list", "assetdb_query_get",
      "assetdb_query_result">>

\* assetdb/tools.py: tools()
AssetdbToolsOneFlag(s) ==
    AssetdbReadTools
        \o (IF s["assetdb_allow_save"] THEN <<"assetdb_query_save">> ELSE <<>>)
        \o (IF s["assetdb_allow_save"] THEN <<"assetdb_query_archive">> ELSE <<>>)
AssetdbTools(s) ==
    AssetdbReadTools
        \o (IF s["assetdb_allow_save"] THEN <<"assetdb_query_save">> ELSE <<>>)
        \o (IF s["assetdb_allow_archive"] THEN <<"assetdb_query_archive">> ELSE <<>>)

\* docs/tools.py: tools()
DocsTools == <<"docs_list", "docs_read">>

\* platform/tools.py: tools()
PlatformTools ==
    <<"platform_graphql_info", "platform_graphql_list_types", "platform_graphql_get_types",
      "platform_graphql_query", "platform_dataset_info", "platform_dataset_export",
      "platform_dataset_lookup">>

\* make_server: list(chain(*(tool_set() for tool_set in tool_sets)))
ServerTools(s) == AssetdbTools(s) \o DocsTools \o PlatformTools

LInit ==
    /\ settings = DefaultSettings
    /\ listed = <<>>
    /\ exposed = None

\* A flag is set, by the environment or by an assignment.
OverrideSetting ==
    /\ \E n \in SettingNames, value \in BOOLEAN :
        /\ settings[n] # value
        /\ settings' = [settings EXCEPT ![n] = value]
    /\ UNCHANGED <<nontools, listed, exposed>>

\* tools() of assetdb/tools.py is called.
ListTools ==
    /\ Len(listed) < MaxListings
    /\ listed' = Append(listed, [settings |-> settings, tools |-> AssetdbTools(settings)])
    /\ UNCHANGED <<nontools, settings, exposed>>

\* make_server builds the server with the tools of the three tool sets.
MakeServer ==
    /\ exposed = None
    /\ exposed' = Some([settings |-> settings, tools |-> ServerTools(settings)])
    /\ UNCHANGED <<nontools, settings, listed>>

LNext ==
    \/ OverrideSetting
    \/ ListTools
    \/ MakeServer

----------------------------------------------------------------------------
\* One dataset export: export_dataset and _poll_export_completion
\* (platform/graphql.py).

\* ExportConnectionInput.timeout: ge=5; the model offers ExportMinTimeout ..
\* ExportMinTimeout + MaxExportExtra.
ExportMinTimeout == 5
MaxExportExtra == 3
ExportTimeouts == ExportMinTimeout .. (ExportMinTimeout + MaxExportExtra)

\* interval: float = 2.0
ExportInterval == 2

DOWNLOAD_URL == "https://example.com/x.csv"

\* The status node as the backend may answer it.
ExportNodes ==
    [started : {None, Some("2024-12-06T03:15:07Z")},
     completed : {None, Some("2024-12-06T03:15:09Z")},
     success : {None, Some(TRUE), Some(FALSE)},
     downloadURL : {None, Some(""), Some(DOWNLOAD_URL)},
     message : {None, Some("meh.")}]

\* ConnectionExportStatus.is_successful
is_successful(node) == node.success = Some(TRUE) /\ node.downloadURL # None

\* export_status.message or "Export failed with no error message"
ExportFailedMessage(node) ==
    <<"Export failed: ",
      IF TruthyStr(node.message) THEN TheValue(node.message)
      ELSE "Export failed with no error message">>

ExportTimedOutMessage(t) == <<"Export timed out after ", ToString(t), " seconds">>

ERaise(kind, message) == Some([kind |-> kind, message |-> message])

EInit ==
    /\ epc = "idle"
    /\ etimeout = 0
    /\ enow = 0
    /\ end_time = 0
    /\ efetches = 0
    /\ esleeps = <<>>
    /\ export_data = None
    /\ export_result = None
    /\ eerror = None

Init == QInit /\ EInit /\ GInit /\ SInit /\ TInit /\ CInit /\ AInit /\ DInit /\ OInit /\ LInit

\* export_dataset called with a validated ExportConnectionInput.
ExportCall ==
    /\ epc = "idle"
    /\ \E t \in ExportTimeouts : etimeout' = t
    /\ epc' = "start"
    /\ UNCHANGED <<nonexport, enow, end_time, efetches, esleeps, export_data,
                   export_result, eerror>>

\* The exportConnection mutation: no GraphQL payload, or errors.
ExportStartFails ==
    /\ epc = "start"
    /\ \E e \in {ERaise("unexpected", <<"Unexpected response: ">>),
                 ERaise("mutation", <<"Export mutation failed: ">>)} : eerror' = e
    /\ epc' = "error"
    /\ UNCHANGED <<nonexport, etimeout, enow, end_time, efetches, esleeps, export_data,
                   export_result>>

\* The exportConnection mutation answers an export id;
\* _poll_export_completion starts: end_time, then the first loop test.
ExportStart ==
    /\ epc = "start"
    /\ end_time' = enow + etimeout
    /\ IF enow < enow + etimeout
       THEN epc' = "fetch" /\ eerror' = eerror
       ELSE epc' = "error" /\ eerror' = ERaise("timeout", ExportTimedOutMessage(etimeout))
    /\ UNCHANGED <<nonexport, etimeout, enow, efetches, esleeps, export_data,
                   export_result>>

\* The status query: no GraphQL payload, or errors.
ExportFetchFails ==
    /\ epc = "fetch"
    /\ efetches' = efetches + 1
    /\ \E d \in 0 .. MaxFetchTime : enow' = enow + d
    /\ \E e \in {ERaise("unexpected", <<"Unexpected response: ">>),
                 ERaise("polling", <<"Export polling failed: ">>)} : eerror' = e
    /\ epc' = "error"
    /\ UNCHANGED <<nonexport, etimeout, end_time, esleeps, export_data, export_result>>

\* The status query answers a node.  Completed: _poll_export_completion
\* returns and export_dataset goes on to the download, or raises.  Not
\* completed: asyncio.sleep(interval).
ExportFetch ==
    /\ epc = "fetch"
    /\ efetches' = efetches + 1
    /\ \E d \in 0 .. MaxFetchTime, node \in ExportNodes :
        /\ enow' = enow + d
        /\ export_data' = Some(node)
        /\ IF node.completed # None
           THEN IF ~is_successful(node)
                THEN /\ eerror' = ERaise("export_failed", ExportFailedMessage(node))
                     /\ epc' = "error"
                ELSE IF ~TruthyStr(node.downloadURL)
                THEN /\ eerror' = ERaise("no_url",
                                  <<"Export completed but no download URL provided">>)
                     /\ epc' = "error"
                ELSE /\ eerror' = eerror
                     /\ epc' = "download"
           ELSE /\ eerror' = eerror
                /\ epc' = "sleep"
    /\ UNCHANGED <<nonexport, etimeout, end_time, esleeps, export_result>>

\* The sleep ends; the loop test; past end_time the poll raises.
ExportSleep ==
    /\ epc = "sleep"
    /\ enow' = enow + ExportInterval
    /\ esleeps' = Append(esleeps, ExportInterval)
    /\ IF enow + ExportInterval < end_time
       THEN epc' = "fetch" /\ eerror' = eerror
       ELSE epc' = "error" /\ eerror' = ERaise("timeout", ExportTimedOutMessage(etimeout))
    /\ UNCHANGED <<nonexport, etimeout, end_time, efetches, export_data, export_result>>

\* _download_export_file: the GET fails.
ExportDownloadFails ==
    /\ epc = "download"
    /\ eerror' = ERaise("http", <<"HTTPStatusError">>)
    /\ epc' = "error"
    /\ UNCHANGED <<nonexport, etimeout, enow, end_time, efetches, esleeps, export_data,
                   export_result>>

\* _download_export_file writes the file; export_dataset returns ExportResult.
ExportDownload ==
    /\ epc = "download"
    /\ export_result' = Some([downloaded |-> TRUE,
                              processed_rows |-> None,
                              download_url |-> TheValue(export_data).downloadURL])
    /\ epc' = "done"
    /\ UNCHANGED <<nonexport, etimeout, enow, end_time, efetches, esleeps, export_data,
                   eerror>>

ENext ==
    \/ ExportCall
    \/ ExportStartFails
    \/ ExportStart
    \/ ExportFetchFails
    \/ ExportFetch
    \/ ExportSleep
    \/ ExportDownloadFails
    \/ ExportDownload

SpecExport == Init /\ [][ENext]_vars

SpecGraphQL == Init /\ [][GNext]_vars

SpecSchema == Init /\ [][SNext]_vars

SpecTypes == Init /\ [][TNext]_vars

SpecCache == Init /\ [][CNext]_vars

\* The server cache and the schema cache of its PlatformClient together.
SpecCaches == Init /\ [][CNext \/ SNext]_vars

SpecGuard == Init /\ [][ANext]_vars

----------------------------------------------------------------------------
SpecFiles == Init /\ [][DNext]_vars

SpecDocs == Init /\ [][ONext]_vars

SpecTools == Init /\ [][LNext]_vars

Next == QNext

Spec == Init /\ [][Next]_vars

\* The same, every awaited request and sleep returning.
FairSpec == Spec /\ WF_vars(Next)

----------------------------------------------------------------------------
\* Observations on a query execution.

RECURSIVE Pow2(_)
Pow2(k) == IF k = 0 THEN 1 ELSE 2 * Pow2(k - 1)

IsJobFetch(r) == r.method = "GET" /\ r.path[2] = "jobs"
IsResultFetch(r) == r.method = "GET" /\ r.path[2] = "query_results"
IsQueryLookup(r) == r.method = "GET" /\ r.path[2] = "queries"

\* Number of GET api/jobs/{id} requests sent.
NFetches == Cardinality({i \in DOMAIN requests : IsJobFetch(requests[i])})

ErrorKind == IF error = None THEN "none" ELSE TheValue(error).kind
ErrorMessage == TheValue(error).message

PollReturned == result_id # None
PollFailed == ErrorKind = "failed"
PollTimedOut == ErrorKind = "timeout"

\* `job` is a fetched job state (not the job of the POST answer).
JobWasFetched ==
    \/ Len(sleeps) >= 1
    \/ pc = "sleep"
    \/ PollReturned
    \/ PollFailed
    \/ PollTimedOut

HasResultId == TruthyInt(job.query_result_id)

\* Every fetch so far took no time: the clock moved only by the sleeps.
InstantFetches == now = (cutoff - timeout) + SumSeq(sleeps)

----------------------------------------------------------------------------
\* C1 (as stated): the poll returns iff the last fetched status is FINISHED
\* and raises the failure error iff it is FAILED or CANCELED; QUEUED, STARTED,
\* DEFERRED and SCHEDULED cause neither.
C1_AsStated ==
    JobWasFetched =>
        /\ PollReturned <=> job.status = FINISHED
        /\ PollFailed <=> job.status \in {FAILED, CANCELED}

\* C1 (amended): the poll returns the fetched job's query_result_id iff that
\* job state carries a non-null, non-zero query_result_id, whatever its
\* status; it raises the failure error iff the state carries no such id and
\* its status is FINISHED, FAILED or CANCELED; a QUEUED, STARTED, DEFERRED or
\* SCHEDULED state without a result id causes neither a return nor a failure
\* error, only a sleep, a further fetch or the timeout error.
C1_ReturnsIffResultId ==
    JobWasFetched =>
        /\ PollReturned <=> HasResultId
        /\ PollReturned => result_id = job.query_result_id
        /\ PollFailed <=> (~HasResultId /\ job.status \in {FINISHED, FAILED, CANCELED})
        /\ (~HasResultId /\ job.status \in {QUEUED, STARTED, DEFERRED, SCHEDULED}) =>
               \/ pc \in {"sleep", "poll"}
               \/ PollTimedOut
               \/ ErrorKind = "http"

\* C1 witness: after two non-terminal states a CANCELED state without a
\* result id raised the failure error.
C1_Witness ==
    /\ Len(sleeps) = 2
    /\ PollFailed
    /\ job.status = CANCELED

----------------------------------------------------------------------------
\* C2: while polling, the interval is 2^(number of sleeps made + 1); every
\* sleep requested is min(2^k, time remaining to the deadline) for the k-th
\* consecutive non-terminal fetch, is positive and ends no later than the
\* deadline; with instantaneous fetches and timeout 60 a poll that times out
\* slept exactly 2, 4, 8, 16, 30, one that ends on its third fetch slept 2, 4,
\* and one that ends on its first fetch did not sleep.
C2_BackoffSchedule ==
    /\ pc \in {"poll", "sleep"} => interval_s = Pow2(Len(sleeps) + 1)
    /\ pc = "sleep" =>
        /\ NFetches = Len(sleeps) + 1
        /\ sleepFor = Min(Pow2(NFetches), cutoff - now)
        /\ sleepFor > 0
        /\ now + sleepFor <= cutoff
    /\ (pc = "poll" /\ Len(sleeps) >= 1) => now <= cutoff
    /\ (PollTimedOut /\ timeout = DefaultTimeout /\ InstantFetches) =>
           sleeps = <<2, 4, 8, 16, 30>>
    /\ ((PollReturned \/ PollFailed) /\ timeout = DefaultTimeout /\ InstantFetches
            /\ NFetches = 3) => sleeps = <<2, 4>>
    /\ ((PollReturned \/ PollFailed) /\ NFetches = 1) => sleeps = <<>>

\* C2 witness: timeout 60, instantaneous fetches, never terminal.
C2_Witness ==
    /\ PollTimedOut
    /\ timeout = DefaultTimeout
    /\ InstantFetches
    /\ sleeps = <<2, 4, 8, 16, 30>>
    /\ NFetches = 6

----------------------------------------------------------------------------
\* C3: with timeout <= 0 the poll makes exactly one fetch, never sleeps, and
\* its outcome is decided by that one job state; whatever the timeout, a
\* timeout error is raised only after at least one fetch.
C3_SingleFetch ==
    /\ (timeout <= 0 /\ response = "job") =>
        /\ sleeps = <<>>
        /\ pc # "sleep"
        /\ NFetches <= 1
        /\ pc # "poll" => NFetches = 1
        /\ (pc # "poll" /\ ErrorKind # "http") =>
            /\ PollReturned <=> HasResultId
            /\ PollFailed <=> (~HasResultId /\ is_terminal(job.status))
            /\ PollTimedOut <=> (~HasResultId /\ ~is_terminal(job.status))
    /\ PollTimedOut => NFetches >= 1

\* C3 witness: timeout 0, one fetch of a non-terminal state, timeout error.
C3_Witness ==
    /\ timeout = 0
    /\ PollTimedOut
    /\ NFetches = 1
    /\ job.status = QUEUED

----------------------------------------------------------------------------
\* The text of a message: its fragments, in order.
NamesSeconds(message, t) ==
    \E i \in 1 .. (Len(message) - 1) :
        message[i] = ToString(t) /\ message[i + 1] = " seconds"

\* C4: a poll never goes to sleep at or after the deadline; the timeout error
\* it raises instead names the timeout in seconds and is the message of no
\* job failure; when it is raised, no GET api/query_results/{id} and no GET
\* api/queries/{id} was sent and no result is returned.
C4_TimeoutError ==
    /\ pc = "sleep" => now < cutoff
    /\ PollTimedOut =>
        /\ pc = "error"
        /\ now >= cutoff
        /\ ~HasResultId /\ ~is_terminal(job.status)
        /\ NamesSeconds(ErrorMessage, timeout)
        /\ \A j \in Jobs : ErrorMessage # FailureMessage(j)
        /\ \A i \in DOMAIN requests :
               ~IsResultFetch(requests[i]) /\ ~IsQueryLookup(requests[i])
        /\ query_result = None
        /\ tool_result = None

\* C4 witness: assetdb_query_result timed out after 60 seconds.
C4_Witness ==
    /\ entry = "tool"
    /\ query_id = Some(QUERY_ID)
    /\ timeout = DefaultTimeout
    /\ PollTimedOut
    /\ Len(sleeps) = 5

----------------------------------------------------------------------------
\* The requests of an execution that went through a job, n fetches made.
RECURSIVE JobFetches(_, _)
JobFetches(j, n) ==
    IF n = 0 THEN <<>> ELSE <<Request("GET", <<"api", "jobs", j.id>>)>> \o JobFetches(j, n - 1)

RequestRank(r) ==
    IF r.method = "POST" THEN 0
    ELSE IF IsJobFetch(r) THEN 1
    ELSE IF IsResultFetch(r) THEN 2
    ELSE 3

\* C5: when the POST was answered with a job, the requests are, in this
\* order, the POST, the job fetches, at most one result fetch, at most one
\* saved-query lookup; a result fetch asks for the query_result_id of the
\* last fetched job state; a finished execution sent the POST, one or more
\* job fetches, exactly that result fetch and, for the saved-query tool only,
\* the lookup of the requested query; the tool result carries that result id
\* and the requested query id (null for an ad-hoc query).
C5_RequestOrder ==
    response = "job" =>
        /\ \A i, k \in DOMAIN requests :
               i < k => RequestRank(requests[i]) <= RequestRank(requests[k])
        /\ requests[1] = Request("POST", SubmitEndpoint(query_id))
        /\ \A i \in DOMAIN requests :
               /\ (i > 1) => requests[i].method = "GET"
               /\ IsResultFetch(requests[i]) =>
                      /\ HasResultId
                      /\ requests[i].path =
                             <<"api", "query_results", ToString(TheValue(job.query_result_id))>>
        /\ pc = "done" =>
               /\ NFetches >= 1
               /\ requests =
                      <<Request("POST", SubmitEndpoint(query_id))>>
                      \o JobFetches(job, NFetches)
                      \o <<Request("GET", <<"api", "query_results",
                                            ToString(TheValue(job.query_result_id))>>)>>
                      \o (IF entry = "tool" /\ query_id # None
                          THEN <<Request("GET", <<"api", "queries",
                                                  ToString(TheValue(query_id))>>)>>
                          ELSE <<>>)
               /\ entry = "tool" =>
                      /\ tool_result # None
                      /\ TheValue(tool_result).result_id = TheValue(job.query_result_id)
                      /\ TheValue(tool_result).query_id = query_id

\* C5 witness: saved query 123, the third fetch gives result id 789, sleeps
\* 2 and 4, the tool returns result_id 789 and query_id 123.
C5_Witness ==
    /\ pc = "done"
    /\ entry = "tool"
    /\ query_id = Some(QUERY_ID)
    /\ response = "job"
    /\ NFetches = 3
    /\ sleeps = <<2, 4>>
    /\ job.status = FINISHED
    /\ tool_result # None
    /\ TheValue(tool_result).result_id = RESULT_ID
    /\ TheValue(tool_result).query_id = Some(QUERY_ID)

----------------------------------------------------------------------------
\* C6: when the POST was answered with a query_result, whatever the timeout,
\* no job fetch, no result fetch and no sleep occur; the only request after
\* the POST is the saved-query lookup, made by the saved-query tool only; the
\* result returned is the one of the POST answer.
C6_SynchronousResult ==
    response = "query_result" =>
        /\ sleeps = <<>>
        /\ pc \notin {"poll", "sleep", "get_result"}
        /\ query_result # None
        /\ TheValue(query_result).id = RESULT_ID
        /\ requests \in
               {<<Request("POST", SubmitEndpoint(query_id))>>,
                <<Request("POST", SubmitEndpoint(query_id)),
                  Request("GET", <<"api", "queries", ToString(QUERY_ID)>>)>>}
        /\ Len(requests) = 2 => (entry = "tool" /\ query_id = Some(QUERY_ID))
        /\ pc = "done" =>
               /\ Len(requests) = (IF entry = "tool" /\ query_id # None THEN 2 ELSE 1)
               /\ entry = "tool" =>
                      /\ tool_result # None
                      /\ TheValue(tool_result).result_id = RESULT_ID
                      /\ TheValue(tool_result).query_id = query_id

\* C6 witness: an ad-hoc assetdb_sql_query answered synchronously.
C6_Witness ==
    /\ pc = "done"
    /\ entry = "tool"
    /\ query_id = None
    /\ response = "query_result"
    /\ requests = <<Request("POST", <<"api", "query_results">>)>>
    /\ tool_result # None
    /\ TheValue(tool_result).result_id = RESULT_ID
    /\ TheValue(tool_result).query_id = None

----------------------------------------------------------------------------
\* C10: the failure error's message is exactly "Query execution failed: "
\* followed by the job's error text, or exactly "Query execution failed:
\* Unknown error." when the job carries no error text.
C10_FailureMessage ==
    PollFailed =>
        ErrorMessage = (IF TruthyStr(job.error)
                        THEN <<"Query execution failed: ", TheValue(job.error)>>
                        ELSE <<"Query execution failed: Unknown error.">>)

----------------------------------------------------------------------------
\* Observations on a dataset export.

EErrorKind == IF eerror = None THEN "none" ELSE TheValue(eerror).kind

\* The status poll was entered and has fetched or given up.
ExportPollActed == epc \in {"sleep", "download", "done"} \/ EErrorKind \notin {"none", "unexpected", "mutation"}

\* C7: waiting for an export never raises because the timeout elapsed, and at
\* least one status fetch is made before the wait ends.
C7_NoTimeoutError ==
    /\ EErrorKind # "timeout"
    /\ ExportPollActed => efetches >= 1

\* C8: an export that completed unsuccessfully (success false) is returned as
\* data: no exception is raised for it.
C8_FailureIsData ==
    (export_data # None /\ TheValue(export_data).completed # None
        /\ TheValue(export_data).success = Some(FALSE)) =>
            EErrorKind \notin {"export_failed", "no_url"}

\* C9: after the k-th incomplete status the export poller sleeps
\* min(2^k, time remaining to the deadline).
C9_ExportBackoff ==
    epc = "sleep" =>
        ExportInterval = Min(Pow2(Len(esleeps) + 1), end_time - enow)

----------------------------------------------------------------------------
\* Observations on a tool result.

ToolReturned == tool_result # None
TheResult == TheValue(tool_result)
FullRows == TheValue(query_result).rows

\* The text of a download URL names the query id, the result id and the
\* format: ".../api/queries/<qid>/results/<rid>.<fmt>?...".
UrlNames(url, qid, rid, fmt) ==
    \E i \in 1 .. (Len(url) - 5) :
        /\ url[i] = "api/queries/"
        /\ url[i + 1] = ToString(qid)
        /\ url[i + 2] = "/results/"
        /\ url[i + 3] = ToString(rid)
        /\ url[i + 4] = "."
        /\ url[i + 5] = fmt

----------------------------------------------------------------------------
\* C11: in every tool result, row_count is the number of rows of the query
\* result and some_rows is its first min(20, row_count) rows in their order:
\* a prefix of the rows, of length <= 20 and <= row_count.
C11_RowPreview ==
    ToolReturned =>
        /\ TheResult.row_count = Len(FullRows)
        /\ Len(TheResult.some_rows) = Min(20, Len(FullRows))
        /\ Len(TheResult.some_rows) <= 20
        /\ Len(TheResult.some_rows) <= TheResult.row_count
        /\ \A i \in 1 .. Len(TheResult.some_rows) : TheResult.some_rows[i] = FullRows[i]

\* C11 witness: a result of 21 rows, previewed by its first 20.
C11_Witness ==
    /\ ToolReturned
    /\ TheResult.row_count = 21
    /\ Len(TheResult.some_rows) = 20
    /\ TheResult.some_rows[20] = 20

----------------------------------------------------------------------------
\* C12: alternate_formats is null for an ad-hoc query result; for a
\* saved-query result it is a list of four entries, one per format csv, json,
\* tsv, xlsx, without duplicates, each URL naming the query id, the result id
\* and the entry's format; query_id is null exactly when alternate_formats is.
C12_AlternateFormats ==
    ToolReturned =>
        /\ query_id = None => TheResult.alternate_formats = None
        /\ query_id # None =>
            /\ TheResult.alternate_formats # None
            /\ LET links == TheValue(TheResult.alternate_formats)
               IN  /\ Len(links) = 4
                   /\ {links[i].format : i \in DOMAIN links} = {"csv", "json", "tsv", "xlsx"}
                   /\ \A i \in DOMAIN links :
                          UrlNames(links[i].download_from, TheValue(query_id),
                                   TheResult.result_id, links[i].format)
        /\ TheResult.query_id = None <=> TheResult.alternate_formats = None

\* C12 witness: assetdb_query_result for query 123 returned four links, the
\* first for csv.
C12_Witness ==
    /\ ToolReturned
    /\ query_id = Some(QUERY_ID)
    /\ TheResult.result_id = RESULT_ID
    /\ TheResult.alternate_formats # None
    /\ Len(TheValue(TheResult.alternate_formats)) = 4
    /\ TheValue(TheResult.alternate_formats)[1].format = "csv"

----------------------------------------------------------------------------
\* C13: a tool call that returned has written one file holding the complete
\* query result (all its rows), and full_results_saved_to names that file; as
\* long as the call has not returned, and whenever it failed, no result file
\* exists.
C13_FullResultSaved ==
    /\ (pc = "done" /\ entry = "tool") =>
        /\ ToolReturned
        /\ Len(files) = 1
        /\ files[1].name = TheResult.full_results_saved_to
        /\ files[1].content.id = TheResult.result_id
        /\ files[1].content.rows = FullRows
        /\ Len(files[1].content.rows) = TheResult.row_count
    /\ pc # "done" => files = <<>>
    /\ error # None => (files = <<>> /\ ~ToolReturned)

\* C13 witness: a polled saved-query call returned a 21-row result, all 21
\* rows in the file.
C13_Witness ==
    /\ pc = "done"
    /\ entry = "tool"
    /\ response = "job"
    /\ Len(sleeps) >= 1
    /\ Len(files) = 1
    /\ Len(files[1].content.rows) = 21
    /\ TheResult.full_results_saved_to = files[1].name

----------------------------------------------------------------------------
\* Observations on a platform_graphql_query call.

HasMutation(q) == \E i \in DOMAIN q : q[i] = "mutation"

GErrorKind == IF gerror = None THEN "none" ELSE TheValue(gerror).kind

\* A body with the shape of a GraphQL payload: a JSON object whose data is
\* absent, null or an object and whose errors is absent, null or a list of
\* errors with a message, one of the two being non-empty.
HasGraphQLShape(body) ==
    /\ body.json = "object"
    /\ body.data \in {"absent", "null", "empty_object", "object"}
    /\ body.errors \in {"absent", "null", "empty_array", "errors"}
    /\ (body.data = "object" \/ body.errors = "errors")

Contains(message, text) ==
    \E i \in 1 .. (Len(message) - Len(text) + 1) :
        SubSeq(message, i, i + Len(text) - 1) = text

----------------------------------------------------------------------------
\* C15: with platform mutations disabled, a call whose document contains a
\* mutation operation sends no HTTP request and returns no result; a call
\* whose document contains only query operations sends its request.
C15_MutationGate ==
    ~platform_allow_mutations =>
        /\ HasMutation(gquery) => (grequests = <<>> /\ gresult = None)
        /\ (gpc \in {"done", "error"} /\ ~HasMutation(gquery)) => Len(grequests) = 1

----------------------------------------------------------------------------
\* C18: once a response is received, the outcome depends on its body alone,
\* whatever the status code: a body with the shape of a GraphQL payload is
\* returned as the result, its data and errors passed through; any other
\* body raises an error whose message contains the response text.
C18_StatusIndependent ==
    gresponse # None =>
        LET body == TheValue(gresponse).body
        IN  /\ gpc \in {"done", "error"}
            /\ gpc = "done" <=> HasGraphQLShape(body)
            /\ gpc = "done" =>
                /\ gerror = None
                /\ gresult # None
                /\ TheValue(gresult).data =
                       (IF body.data \in {"empty_object", "object"}
                        THEN Some(body.data) ELSE None)
                /\ TheValue(gresult).errors =
                       (IF body.errors = "errors" THEN Some("errors") ELSE None)
            /\ gpc = "error" =>
                /\ gresult = None
                /\ GErrorKind = "unexpected"
                /\ Contains(TheValue(gerror).message, ResponseText(body))

\* C18 witness: status 500 with a body carrying data is returned as a result.
C18_Witness ==
    /\ gpc = "done"
    /\ gresponse # None
    /\ TheValue(gresponse).status_code = 500
    /\ TheValue(gresponse).body.data = "object"
    /\ gresult # None
    /\ TheValue(gresult).data = Some("object")

----------------------------------------------------------------------------
\* C16: on one PlatformClient, whatever the calls and however they overlap,
\* the schema is built from at most one successful introspection, it is never
\* replaced, and every call that returns a schema returns the same one.
C16_SingleIntrospection ==
    /\ sbuilt <= 1
    /\ \A t, u \in Tasks :
           (stask[t].pc = "done" /\ stask[u].pc = "done") =>
               stask[t].schema = stask[u].schema

----------------------------------------------------------------------------
\* C20: every distinct requested name is either a key of found_sdl or a
\* member of not_found, never both, and nothing else is in either; a name is
\* in found_sdl iff the schema's type map contains it; not_found is sorted
\* and free of duplicates; asked_for is the requested list, order and
\* duplicates kept.
C20_Partition ==
    types_result # None =>
        LET r == TheValue(types_result)
            requested == {type_names[i] : i \in DOMAIN type_names}
            found == DOMAIN r.found_sdl
            missing == {r.not_found[i] : i \in DOMAIN r.not_found}
        IN  /\ found \cup missing = requested
            /\ found \cap missing = {}
            /\ \A n \in requested : n \in found <=> n \in type_map
            /\ \A i, k \in DOMAIN r.not_found : i < k => r.not_found[i] < r.not_found[k]
            /\ r.asked_for = type_names

\* C20 witness: Query, AccountList, Query asked of a schema that has only
\* Account: both are reported missing, in sorted order, once each.
C20_Witness ==
    /\ types_result # None
    /\ type_names = <<3, 2, 3>>
    /\ type_map = {1}
    /\ TheValue(types_result).not_found = <<2, 3>>
    /\ TheValue(types_result).asked_for = <<3, 2, 3>>

----------------------------------------------------------------------------
\* C17: for every key of the server cache, at most one object is ever
\* constructed, and only once the key (or, for the credentials, a client) has
\* been asked for; the entry, once set, is that first object; every get that
\* returned holds the cached object of its key; every cached client holds the
\* one cached credentials object.
C17_ConstructedOnce ==
    /\ \A k \in CacheKeys :
        /\ constructed[k] <= 1
        /\ server_state[k] = None <=> constructed[k] = 0
        /\ server_state[k] # None =>
            /\ TheValue(server_state[k]).key = k
            /\ TheValue(server_state[k]).n = 1
    /\ \A t \in Tasks :
           ctask[t].pc = "running" => ctask[t].obj = server_state[ctask[t].key]
    /\ \A k \in ClientKeys :
           server_state[k] # None =>
               /\ server_state[STACKLET_CREDS] # None
               /\ TheValue(server_state[k]).credentials = server_state[STACKLET_CREDS]

\* C17 witness: the three clients are cached and two overlapping invocations
\* hold the same AssetDB client.
C17_Witness ==
    /\ \A k \in CacheKeys : constructed[k] = 1
    /\ ctask[1].pc = "running" /\ ctask[1].key = "ASSETDB_CLIENT"
    /\ ctask[2].pc = "running" /\ ctask[2].key = "ASSETDB_CLIENT"
    /\ ctask[1].obj = ctask[2].obj
    /\ ctask[1].obj # None

\* What the caller meant is a value the parameter accepts, and no string.
ValidNonString == avalue.t # "str" /\ ArgValidates(aparam, avalue)

\* Two items of a list of dicts carry the same name.
SameNameTwice(v) ==
    /\ v.t = "list"
    /\ \E i, j \in DOMAIN v.items : i # j /\ DictGet(v.items[i], NAME) = DictGet(v.items[j], NAME)

\* What the caller meant breaks one of the declared constraints.
ViolatesConstraint ==
    \/ aparam = "type_names" /\ avalue = PyList(<<>>)
    \/ aparam = "columns" /\ avalue = PyList(<<>>)
    \/ aparam = "columns" /\ SameNameTwice(avalue)
    \/ aparam = "params" /\ avalue \notin RawStrings /\ SameNameTwice(avalue)
    \/ /\ aparam = "filename"
       /\ avalue.t = "str"
       /\ \E i \in DOMAIN avalue.s : avalue.s[i] \in {"/", ":"}

\* C14: for a parameter whose type does not accept strings and a valid value
\* x of it, the call is accepted whether x is delivered as it is or as the
\* string json.dumps(x); the implementation sees x itself, and the one request
\* it sends carries x, so requests and result do not depend on the delivery.
C14_JsonRoundTrip ==
    (~AcceptsStr(aparam) /\ aparam \in Params /\ ValidNonString) =>
        /\ apc # "rejected"
        /\ aerror = None
        /\ apc \in {"call", "done"} => avalidated = Some(avalue)
        /\ apc = "done" => arequests = <<[param |-> aparam, value |-> avalue]>>
        /\ apc # "done" => arequests = <<>>

C14_Witness ==
    /\ apc = "done"
    /\ aparam = "type_names"
    /\ amangle = "json.dumps"
    /\ aarg = PyStr(<<"[", "\"", "a", "\"", ",", " ", "\"", "b", "\"", "]">>)
    /\ avalue = PyList(<<PyStr(<<"a">>), PyStr(<<"b">>)>>)
    /\ arequests = <<[param |-> "type_names", value |-> avalue]>>

C30_NeverAString ==
    (aparam \in Params /\ ~AcceptsStr(aparam)) =>
        LET g == MaybeLoadJson(aarg)
        IN  /\ ~g.raises => g.value.t # "str"
            /\ aarg.t # "str" => (~g.raises /\ g.value = aarg)
            /\ aarg = PyStr(<<>>) => (~g.raises /\ g.value = PyNone)
            /\ (aarg.t = "str" /\ aarg.s # <<>>) =>
                   /\ g.raises <=> (~loads(aarg.s).ok \/ loads(aarg.s).v.t = "str")
                   /\ ~g.raises => g.value = loads(aarg.s).v
            /\ apc \in {"call", "done"} => TheValue(avalidated).t # "str"
            /\ (apc = "rejected" /\ g.raises) => aerror = Some("json_guard")

C30_Witness ==
    /\ apc = "rejected"
    /\ aparam = "max_age"
    /\ aarg = PyStr(<<"\"", "a", "\"">>)
    /\ aerror = Some("json_guard")
    /\ avalidated = None

\* Number of requests sent so far that satisfy a test.
NPosts == Cardinality({i \in DOMAIN requests : requests[i].method = "POST"})
NResultFetches == Cardinality({i \in DOMAIN requests : IsResultFetch(requests[i])})
NQueryLookups == Cardinality({i \in DOMAIN requests : IsQueryLookup(requests[i])})

\* An HTTP error ended the execution where it stands; only the job fetch is
\* ever sent twice, and a further fetch follows only a fetched state that is
\* not terminal and carries no result id, after the sleep it caused.
NoRetryState ==
    /\ ErrorKind = "http" =>
        /\ pc = "error"
        /\ tool_result = None
        /\ NFetches <= Len(sleeps) + 1
    /\ NPosts <= 1 /\ NResultFetches <= 1 /\ NQueryLookups <= 1
    /\ \A i, k \in DOMAIN requests :
           (i # k /\ requests[i] = requests[k]) => IsJobFetch(requests[i])
    /\ pc = "poll" => (NFetches = Len(sleeps) /\ error = None)
    /\ (pc \in {"poll", "sleep"} /\ NFetches >= 1) =>
           (~HasResultId /\ ~is_terminal(job.status))

\* Once an HTTP error was raised, no request is sent and no sleep is made.
NoRetryStep ==
    ErrorKind = "http" =>
        (requests' = requests /\ sleeps' = sleeps /\ error' = error /\ pc' = pc)

\* C24: an HTTP error of the submit POST, of a job fetch, of the result fetch
\* or of the saved-query lookup ends the execution at once, with no sleep and
\* no request after it; the POST, the result fetch and the lookup are sent at
\* most once, and a job fetch is repeated only after a fetched state that is
\* not terminal and has no result id.
C24_NoRetry == []NoRetryState /\ [][NoRetryStep]_vars

\* C24 witness: the third job fetch failed with an HTTP error after the
\* sleeps 2 and 4.
C24_Witness ==
    /\ ErrorKind = "http"
    /\ pc = "error"
    /\ sleeps = <<2, 4>>
    /\ NFetches = 3
    /\ IsJobFetch(requests[Len(requests)])

\* C26: every sleep of the poll is followed by a fetch before the deadline
\* is looked at again: the timeout error is raised only by a fetch made after
\* the last sleep, whose state has no result id and is not terminal; a state
\* with a result id fetched after the last sleep is returned, at or past the
\* deadline too.
C26_FetchAfterLastSleep ==
    /\ PollTimedOut =>
        /\ NFetches = Len(sleeps) + 1
        /\ IsJobFetch(requests[Len(requests)])
        /\ ~HasResultId
    /\ (response = "job" /\ pc = "poll") => (NFetches = Len(sleeps) /\ ~PollTimedOut)
    /\ (response = "job" /\ NFetches = Len(sleeps) + 1 /\ ErrorKind # "http" /\ HasResultId) =>
           (PollReturned /\ result_id = job.query_result_id /\ ~PollTimedOut)

\* C26 witness: timeout 6, instantaneous fetches, sleeps 2 and 4, the second
\* ending exactly at the deadline; the fetch that follows finds the job
\* FINISHED with a result id and the poll returns it.
C26_Witness ==
    /\ timeout = 6
    /\ InstantFetches
    /\ sleeps = <<2, 4>>
    /\ now = cutoff
    /\ NFetches = 3
    /\ job.status = FINISHED
    /\ PollReturned
    /\ result_id = Some(RESULT_ID)
    /\ ~PollTimedOut

RECURSIVE FloorLog2(_)
FloorLog2(n) == IF n < 2 THEN 0 ELSE 1 + FloorLog2(n \div 2)

\* The poll is over: it returned a result id or raised.
PollEnded == pc \in {"get_result", "get_query", "done", "error"}

\* With timeout T >= 1 the poll sleeps at most floor(log2(T + 2)) times and
\* fetches at most once more than it sleeps.
PollIsBounded ==
    (response = "job" /\ timeout >= 1) =>
        /\ Len(sleeps) <= FloorLog2(timeout + 2)
        /\ NFetches <= Len(sleeps) + 1
        /\ PollEnded => NFetches = Len(sleeps) + 1
        /\ (timeout = DefaultTimeout /\ InstantFetches) => NFetches <= 6
        /\ (timeout = DefaultTimeout /\ InstantFetches /\ PollTimedOut) =>
               (NFetches = 6 /\ Len(sleeps) = 5)
        /\ (PollEnded /\ ErrorKind # "http" /\ ~HasResultId /\ ~is_terminal(job.status)) =>
               PollTimedOut

\* C27: a poll with timeout T >= 1 sleeps at most floor(log2(T + 2)) times,
\* fetches once more than it sleeps (6 fetches for T = 60 and instantaneous
\* fetches) and, every fetch and sleep returning, ends: it returns or raises,
\* and a job that never becomes terminal ends it in the timeout error.
C27_PollTerminates == []PollIsBounded /\ ((pc = "poll") ~> PollEnded)

\* C27 witness: timeout 7, the job never terminal: sleeps 2, 4 and 1, which
\* are floor(log2(9)) = 3 sleeps, four fetches, the timeout error.
C27_Witness ==
    /\ timeout = 7
    /\ InstantFetches
    /\ sleeps = <<2, 4, 1>>
    /\ Len(sleeps) = FloorLog2(timeout + 2)
    /\ NFetches = 4
    /\ PollTimedOut

\* C28: the poll returns only the query_result_id of the job state fetched
\* last, which is neither null nor zero; the result fetched afterwards, and
\* the result held, is the one of that id; a fetched state that is terminal
\* (FINISHED too) without a result id raises the failure error: the poll
\* neither returns nor goes on.
C28_ReturnsFetchedResultId ==
    response = "job" =>
        /\ PollReturned =>
            /\ job.query_result_id # None
            /\ TheValue(job.query_result_id) # 0
            /\ result_id = job.query_result_id
            /\ NFetches >= 1
            /\ requests[NFetches + 1] = Request("GET", JobEndpoint(job))
        /\ \A i \in DOMAIN requests :
               IsResultFetch(requests[i]) =>
                   /\ PollReturned
                   /\ requests[i] = Request("GET", ResultEndpoint(TheValue(job.query_result_id)))
        /\ query_result # None => TheValue(query_result).id = TheValue(job.query_result_id)
        /\ (NFetches >= 1 /\ ErrorKind # "http" /\ is_terminal(job.status)
                /\ job.query_result_id \in {None, Some(0)}) =>
               /\ PollFailed
               /\ pc = "error"
               /\ ~PollReturned
               /\ query_result = None

\* C28 witness: after one sleep the job is FINISHED with result id 0: the
\* failure error is raised.
C28_Witness ==
    /\ response = "job"
    /\ sleeps = <<2>>
    /\ job.status = FINISHED
    /\ job.query_result_id = Some(0)
    /\ PollFailed
    /\ result_id = None

\* C25: a file persisted by an invocation is written once: every persist
\* makes a file of its own, and what a persist wrote stays on disk unchanged
\* whatever later persists do, those of the same second and of the same query
\* or result id included.
C25_WrittenOnce ==
    /\ \A i, k \in DOMAIN persisted : i # k => persisted[i].path # persisted[k].path
    /\ \A i \in DOMAIN persisted :
           [path |-> persisted[i].path, content |-> persisted[i].content] \in disk

\* The docs_read calls, running or ended.
DocsReads ==
    {dtask[t] : t \in {u \in DocTasks : dtask[u].op = "docs_read"}}
        \cup {dcalls[i] : i \in {k \in DOMAIN dcalls : dcalls[k].op = "docs_read"}}

\* C22: docs_read sends the GET of a document only after the index it has
\* just fetched, and only when that index lists the path; for a path the
\* index does not list, the index request is the only one and the call fails
\* with "Resource is not a known document file".
C22_OnlyListedDocuments ==
    /\ \A c \in DocsReads :
        /\ c.sent \in {<<INDEX_JSON>>, <<INDEX_JSON, c.file_path>>}
        /\ Len(c.sent) = 2 =>
               /\ c.index # None
               /\ \E i \in DOMAIN TheValue(c.index) : TheValue(c.index)[i] = c.file_path
        /\ (c.index # None
                /\ \A i \in DOMAIN TheValue(c.index) : TheValue(c.index)[i] # c.file_path) =>
               /\ c.sent = <<INDEX_JSON>>
               /\ c.error = Some(NOT_KNOWN)
               /\ c.result = None
    /\ \A i \in DOMAIN drequests :
           drequests[i].url # INDEX_JSON =>
               \E k \in 1 .. (i - 1) :
                   /\ drequests[k] = [by |-> drequests[i].by, url |-> INDEX_JSON]
                   /\ \A n \in (k + 1) .. (i - 1) : drequests[n].by # drequests[i].by

\* C22 witness: some_other_file.md is asked for, the index lists foo.md and
\* bar.md: one request, the error.
C22_Witness ==
    \E i \in DOMAIN dcalls :
        /\ dcalls[i].op = "docs_read"
        /\ dcalls[i].file_path = "some_other_file.md"
        /\ dcalls[i].index = Some(<<"foo.md", "bar.md">>)
        /\ dcalls[i].sent = <<INDEX_JSON>>
        /\ dcalls[i].error = Some(NOT_KNOWN)
        /\ drequests = <<[by |-> 1, url |-> INDEX_JSON]>>

\* C23: once a docs_list call has fetched index.json and returned, every
\* docs_list call made later returns the same listing and sends no request.
C23_ListingCached ==
    \A i, k \in DOMAIN dcalls :
        (/\ dcalls[i].op = "docs_list"
         /\ dcalls[i].index # None
         /\ dcalls[k].op = "docs_list"
         /\ dcalls[k].after >= i) =>
            /\ dcalls[k].sent = <<>>
            /\ dcalls[k].result = dcalls[i].result

\* What the caches hold was constructed in full: a cached client holds the
\* cached credentials, a cached schema is one that was built from an answer.
CachesHoldWholeObjects ==
    /\ \A k \in CacheKeys :
           server_state[k] # None =>
               /\ constructed[k] >= 1
               /\ TheValue(server_state[k]).key = k
               /\ k # STACKLET_CREDS =>
                      TheValue(server_state[k]).credentials = server_state[STACKLET_CREDS]
    /\ \A k \in CacheKeys : constructed[k] >= 1 => server_state[k] # None
    /\ schema_cache # None =>
           /\ sbuilt >= 1
           /\ TheValue(schema_cache).obj \in 1 .. sbuilt
           /\ TheValue(schema_cache).type_map \in TypeMaps
    /\ \A t \in Tasks :
           /\ ctask[t].pc = "error" => ctask[t].obj = None
           /\ stask[t].pc = "error" => (stask[t].schema = None /\ stask[t].error # None)

\* A construction or introspection that raises changes no cache and hands its
\* error to the caller.
FailureLeavesCaches ==
    /\ load_failures' # load_failures =>
           /\ server_state' = server_state
           /\ constructed' = constructed
           /\ \E t \in Tasks : ctask[t].pc = "idle" /\ ctask'[t].pc = "error"
    /\ (\E t \in Tasks : stask[t].pc = "awaiting" /\ stask'[t].pc = "error") =>
           /\ schema_cache' = schema_cache
           /\ sbuilt' = sbuilt

\* A call that finds its cache entry absent constructs or introspects again.
AbsentIsTriedAgain ==
    /\ \A t \in Tasks :
           (stask[t].pc = "idle" /\ stask'[t].pc # "idle" /\ schema_cache = None) =>
               (stask'[t].pc = "awaiting" /\ srequests' = Append(srequests, t))
    /\ \A t \in Tasks :
           (ctask[t].pc = "idle" /\ ctask'[t].pc # "idle"
                /\ server_state[ctask'[t].key] = None) =>
               \/ ctask'[t].pc = "error" /\ load_failures' = load_failures + 1
               \/ /\ ctask'[t].pc = "running"
                  /\ constructed'[ctask'[t].key] = 1
                  /\ ctask'[t].obj = server_state'[ctask'[t].key]

InList(tool, tools) == \E i \in DOMAIN tools : tools[i] = tool

\* The tool lists computed so far, each with the settings it was computed under.
ToolLists == {listed[i] : i \in DOMAIN listed} \cup exposed

\* C21: in every tool list computed, assetdb_query_save is present iff
\* assetdb_allow_save was true and assetdb_query_archive iff
\* assetdb_allow_archive was true, each whatever the other flag; under the
\* default settings neither is present; the five read tools are present under
\* every setting.
C21_WriteToolsGated ==
    \A l \in ToolLists :
        /\ InList("assetdb_query_save", l.tools) <=> l.settings["assetdb_allow_save"]
        /\ InList("assetdb_query_archive", l.tools) <=> l.settings["assetdb_allow_archive"]
        /\ l.settings = DefaultSettings =>
               (~InList("assetdb_query_save", l.tools)
                    /\ ~InList("assetdb_query_archive", l.tools))
        /\ \A tool \in {"assetdb_sql_info", "assetdb_sql_query", "assetdb_query_list",
                        "assetdb_query_get", "assetdb_query_result"} : InList(tool, l.tools)

\* C21 witness: the server was made with archiving allowed and saving not:
\* assetdb_query_archive is exposed, assetdb_query_save is not.
C21_Witness ==
    /\ exposed # None
    /\ TheValue(exposed).settings["assetdb_allow_archive"]
    /\ ~TheValue(exposed).settings["assetdb_allow_save"]
    /\ InList("assetdb_query_archive", TheValue(exposed).tools)
    /\ ~InList("assetdb_query_save", TheValue(exposed).tools)
    /\ Len(listed) = 1
    /\ listed[1].settings = DefaultSettings
    /\ Len(listed[1].tools) = 5

====
